---- MODULE Spec2Model ----
(***************************************************************************)
(* Model of the research agent of AginnoOpen: the search gateway           *)
(* (src/utils/search.ts, performSearch / generateMockResults) and the      *)
(* ReAct-style loop (src/utils/llm.ts, generateResearchResponse and its    *)
(* helpers), driven by processQuery (src/app/api/ask/route.ts).            *)
(*                                                                         *)
(* Text is a sequence of tokens (a token is a word, a phrase or a single   *)
(* punctuation character); String.includes is containment of a contiguous  *)
(* token sequence.  Every `await` of the code is a point where an action    *)
(* ends; the code that runs between two awaits is one action.              *)
(*                                                                         *)
(* Spec     one invocation of processQuery with the gateway stepped        *)
(*          attempt by attempt.                                            *)
(* PostSpec the POST handler of /api/ask and the chat store                *)
(*          (src/components/AgentOutput.tsx from line 65), with            *)
(*          generateResearchResponse taken by its outcome.                 *)
(* TwoSpec  two invocations of processQuery interleaved on one event loop. *)
(***************************************************************************)
EXTENDS Naturals, Sequences, FiniteSets, TLC

VARIABLES
    \* process.env and the request
    OPENAI_API_KEY,        \* TRUE iff the language-model credential is set
    SERPER_API_KEY,        \* TRUE iff the search credential is set
    query,                 \* the query given to processQuery
    \* processQuery / generateResearchResponse / performIterativeResearch
    pc,                    \* the await the invocation is suspended at
    initialSearchResults,  \* processQuery's searchResults
    traceSteps,            \* generateResearchResponse's traceSteps array
    i,                     \* loop index of performIterativeResearch
    consecutiveFailures,   \* performIterativeResearch's counter
    refinedQuery,          \* the round's refined query
    searchStep,            \* index in traceSteps of the round's searchStep object
    searchResults,         \* the round's searchResults
    finalOutput,           \* generateFinalOutput's result
    outcome,               \* "running", "returned" or "thrown"
    error,                 \* the error thrown to the caller
    calls,                 \* calls issued by the invocation so far, in order
    failedCalls,           \* model calls of the invocation that failed
    allFallback,           \* every search so far resolved with generated results
    outstanding,           \* positions in calls of the calls not yet settled
    essentialSteps,        \* generateFinalOutput's essentialSteps
    responseBody,          \* the JSON text processQuery responds with
    \* performSearch (one call at a time)
    spc,                   \* "idle", "fetch", "text", "json", "backoff", "resolved"
    sQuery,                \* performSearch's query argument
    cleanedQuery,          \* performSearch's cleanedQuery
    attempt,               \* performSearch's attempt
    timerArmed,            \* the attempt's abort timer is pending
    timerMs,               \* the delay the abort timer was armed with
    fetches,               \* provider calls made by this performSearch call
    waits,                 \* the waits between attempts: [attempt, failure, ms]
    searchReturn,          \* the value performSearch resolved with
    usedFallback,          \* searchReturn came from generateMockResults
    delivered,             \* the organic array of the response that was returned
    \* the chat store and the requests to POST /api/ask
    chatStore,             \* chatStore.chats: chat id -> chat
    uuidCount,             \* number of uuidv4() values drawn so far
    requests,              \* per request: its inputs, progress and answer
    \* a second invocation on the same event loop
    running,               \* the invocation whose locals the variables above hold
    parked                 \* the locals of the invocation that is not running

envVars    == <<OPENAI_API_KEY, SERPER_API_KEY, query>>
loopVars   == <<pc, initialSearchResults, traceSteps, i, consecutiveFailures,
                refinedQuery, searchStep, searchResults, finalOutput, outcome,
                error, calls, failedCalls, allFallback, outstanding,
                essentialSteps, responseBody>>
searchVars == <<spc, sQuery, cleanedQuery, attempt, timerArmed, timerMs, fetches,
                waits, searchReturn, usedFallback, delivered>>
hostVars   == <<chatStore, uuidCount, requests>>
concVars   == <<running, parked>>
vars       == <<envVars, loopVars, searchVars, hostVars, concVars>>

----------------------------------------------------------------------------
(* Text *)

Range(s) == { s[k] : k \in 1..Len(s) }

\* String.prototype.includes
Includes(s, p) ==
    \E k \in 0..(Len(s) - Len(p)) : SubSeq(s, k + 1, k + Len(p)) = p

QuoteChars == {"\"", "'"}

\* s.replace(/^["'](.*)["']$/, '$1'): "." matches no line terminator
StripQuotes(s) ==
    IF /\ Len(s) >= 2
       /\ s[1] \in QuoteChars
       /\ s[Len(s)] \in QuoteChars
       /\ "\n" \notin Range(SubSeq(s, 2, Len(s) - 1))
    THEN SubSeq(s, 2, Len(s) - 1)
    ELSE s

WhiteSpace == {" ", "\n"}

RECURSIVE TrimStart(_)
TrimStart(s) ==
    IF s # <<>> /\ Head(s) \in WhiteSpace THEN TrimStart(Tail(s)) ELSE s

RECURSIVE TrimEnd(_)
TrimEnd(s) ==
    IF s # <<>> /\ s[Len(s)] \in WhiteSpace
    THEN TrimEnd(SubSeq(s, 1, Len(s) - 1))
    ELSE s

\* String.prototype.trim
Trim(s) == TrimEnd(TrimStart(s))

\* the decimal text of a small number, as a template literal prints it
NumText(n) == <<"0", "1", "2", "3", "4", "5", "6", "7">>[n + 1]

----------------------------------------------------------------------------
(* Search results *)

\* the largest result set the provider returns in this model
MaxOrganic == 2

\* links the provider may return: a real page, and a real page that happens
\* to live on a placeholder domain
ProviderLinks ==
    { <<"https://", "cars.test", "/ev">>,
      <<"https://", "example.com", "/blog">> }

\* interface SearchResult
ProviderResult(link, position) ==
    [ title    |-> <<"Provider page">>,
      link     |-> link,
      snippet  |-> <<"Provider snippet">>,
      position |-> position ]

\* the non-empty "organic" arrays the provider may deliver
ProviderBatches ==
    UNION { { [ k \in 1..n |-> ProviderResult(links[k], k) ] :
                links \in [1..n -> ProviderLinks] } : n \in 1..MaxOrganic }

\* the parsed bodies response.json() may resolve with
NullBody    == [ null |-> TRUE ]
NoOrganic   == [ searchParameters |-> <<"q">> ]
EmptyBody   == [ organic |-> <<>> ]
ProviderBodies ==
    { NullBody, NoOrganic, EmptyBody } \cup { [ organic |-> b ] : b \in ProviderBatches }

\* a fallback batch whose last entry repeats the link of the first
generateMockResultsRepeatedLink(q) ==
    << [ title    |-> <<"Information about ">> \o q \o <<" - Resource 1">>,
         link     |-> <<"https://", "example.com", "/resource1">>,
         snippet  |-> <<"This is a placeholder result for ">> \o q,
         position |-> 1 ],
       [ title    |-> q \o <<" - Wikipedia">>,
         link     |-> <<"https://en.", "wikipedia.org/wiki/example">>,
         snippet  |-> q \o <<" refers to a topic of interest.">>,
         position |-> 2 ],
       [ title    |-> <<"Latest research on ">> \o q,
         link     |-> <<"https://", "example.org", "/research">>,
         snippet  |-> <<"Recent studies regarding ">> \o q,
         position |-> 3 ],
       [ title    |-> q \o <<": A comprehensive guide">>,
         link     |-> <<"https://", "example.net", "/guide">>,
         snippet  |-> <<"Our guide examines ">> \o q,
         position |-> 4 ],
       [ title    |-> <<"Expert opinions on ">> \o q,
         link     |-> <<"https://", "example.com", "/resource1">>,
         snippet  |-> <<"Leading experts on ">> \o q,
         position |-> 5 ] >>

generateMockResults(q) ==
    << [ title    |-> <<"Information about ">> \o q \o <<" - Resource 1">>,
         link     |-> <<"https://", "example.com", "/resource1">>,
         snippet  |-> <<"This is a comprehensive resource about ">> \o q
                        \o <<" with detailed information and analysis.">>,
         position |-> 1 ],
       [ title    |-> q \o <<" - Wikipedia">>,
         link     |-> <<"https://en.", "wikipedia.org/wiki/example">>,
         snippet  |-> q \o <<" refers to a topic of interest with various aspects and considerations worth exploring.">>,
         position |-> 2 ],
       [ title    |-> <<"Latest research on ">> \o q,
         link     |-> <<"https://", "example.org", "/research">>,
         snippet  |-> <<"Recent studies and analyses regarding ">> \o q
                        \o <<" have shown interesting patterns and insights.">>,
         position |-> 3 ],
       [ title    |-> q \o <<": A comprehensive guide">>,
         link     |-> <<"https://", "example.net", "/guide">>,
         snippet  |-> <<"Our guide provides a thorough examination of ">> \o q
                        \o <<" from multiple perspectives.">>,
         position |-> 4 ],
       [ title    |-> <<"Expert opinions on ">> \o q,
         link     |-> <<"https://", "example.com", "/expert-analysis">>,
         snippet  |-> <<"Leading experts have shared their thoughts and analyses on ">> \o q
                        \o <<" and related topics.">>,
         position |-> 5 ] >>

----------------------------------------------------------------------------
(* performSearch *)

\* a gateway that gives up one attempt early
MaxAttemptsTwo == 1 + 1

MAX_ATTEMPTS          == 3
ABORT_TIMEOUT_MS      == 20000
HTTP_ERROR_BACKOFF_MS == 1000
EXCEPTION_BACKOFF_MS  == 1500

\* an attempt is in flight while the code awaits fetch, response.text() or
\* response.json()
InFlight == spc \in {"fetch", "text", "json"}

SearchIdle ==
    /\ spc = "idle"
    /\ sQuery = <<>>
    /\ cleanedQuery = <<>>
    /\ attempt = 0
    /\ timerArmed = FALSE
    /\ timerMs = 0
    /\ fetches = 0
    /\ waits = <<>>
    /\ searchReturn = <<>>
    /\ usedFallback = FALSE
    /\ delivered = <<>>

\* a return that drops the results whose link an earlier result has
ResolveDeduplicated(batch, fallback) ==
    /\ spc' = "resolved"
    /\ searchReturn' = SelectSeq(batch, LAMBDA r :
                            \A j \in 1..Len(batch) :
                                batch[j].position < r.position => batch[j].link # r.link)
    /\ usedFallback' = fallback
    /\ UNCHANGED <<sQuery, cleanedQuery, attempt, timerArmed, timerMs, fetches, waits>>

\* the promise of performSearch resolves with batch
Resolve(batch, fallback) ==
    /\ spc' = "resolved"
    /\ searchReturn' = batch
    /\ usedFallback' = fallback
    /\ UNCHANGED <<sQuery, cleanedQuery, attempt, timerArmed, timerMs, fetches, waits>>

\* new AbortController, setTimeout(abort, 20000), fetch(...)
StartAttempt(n) ==
    /\ spc' = "fetch"
    /\ attempt' = n
    /\ timerArmed' = TRUE
    /\ timerMs' = ABORT_TIMEOUT_MS
    /\ fetches' = fetches + 1

\* for (...; attempt <= 3; attempt++): the next attempt, or the return after
\* the loop
NextAttempt(n) ==
    IF n <= MAX_ATTEMPTS
    THEN /\ StartAttempt(n)
         /\ UNCHANGED <<sQuery, cleanedQuery, searchReturn, usedFallback, delivered>>
    ELSE /\ spc' = "resolved"
         /\ searchReturn' = generateMockResults(cleanedQuery)
         /\ usedFallback' = TRUE
         /\ UNCHANGED <<sQuery, cleanedQuery, attempt, timerArmed, timerMs, fetches,
                        delivered>>

\* await new Promise(r => setTimeout(r, ms)) after a failed attempt
Backoff(kind, ms) ==
    /\ spc' = "backoff"
    /\ waits' = Append(waits, [attempt |-> attempt, failure |-> kind, ms |-> ms])
    /\ UNCHANGED <<sQuery, cleanedQuery, attempt, timerArmed, timerMs, fetches,
                   searchReturn, usedFallback, delivered>>

\* the call performSearch(q), up to its first await
CallPerformSearch(q) ==
    /\ sQuery' = q
    /\ waits' = <<>>
    /\ IF ~SERPER_API_KEY
       THEN /\ spc' = "resolved"
            /\ searchReturn' = generateMockResults(q)
            /\ usedFallback' = TRUE
            /\ UNCHANGED <<cleanedQuery, attempt, timerArmed, timerMs, fetches,
                           delivered>>
       ELSE /\ cleanedQuery' = StripQuotes(q)
            /\ StartAttempt(1)
            /\ UNCHANGED <<searchReturn, usedFallback, delivered>>

\* a catch block that rethrows on the last attempt
CatchAttemptRethrow(kind) ==
    IF attempt = MAX_ATTEMPTS
       THEN /\ spc' = "rejected"
            /\ UNCHANGED <<sQuery, cleanedQuery, attempt, timerArmed, timerMs, fetches,
                           waits, searchReturn, usedFallback, delivered>>
       ELSE Backoff(kind, attempt * EXCEPTION_BACKOFF_MS)

\* the catch block of an attempt
CatchAttempt(kind) ==
    IF attempt = MAX_ATTEMPTS
       THEN /\ Resolve(generateMockResults(cleanedQuery), TRUE)
            /\ UNCHANGED delivered
       ELSE Backoff(kind, attempt * EXCEPTION_BACKOFF_MS)

\* fetch resolves with a response (its headers); clearTimeout(timeoutId)
FetchResponds(ok) ==
    /\ spc = "fetch"
    /\ spc' = IF ok THEN "json" ELSE "text"
    /\ timerArmed' = FALSE
    /\ UNCHANGED <<sQuery, cleanedQuery, attempt, timerMs, fetches, waits,
                   searchReturn, usedFallback, delivered>>
    /\ UNCHANGED <<envVars, loopVars, hostVars, concVars>>

\* fetch rejects with a transport error
FetchRejects ==
    /\ spc = "fetch"
    /\ CatchAttempt("transport")
    /\ UNCHANGED <<envVars, loopVars, hostVars, concVars>>

\* the abort timer fires: controller.abort() rejects the pending call with
\* an AbortError
AbortTimerFires ==
    /\ timerArmed
    /\ InFlight
    /\ CatchAttempt("timeout")
    /\ UNCHANGED <<envVars, loopVars, hostVars, concVars>>

\* the branch if (!response.ok), after response.text() resolved
TextResolves ==
    /\ spc = "text"
    /\ IF attempt = MAX_ATTEMPTS
       THEN /\ Resolve(generateMockResults(cleanedQuery), TRUE)
            /\ UNCHANGED delivered
       ELSE Backoff("non2xx", attempt * HTTP_ERROR_BACKOFF_MS)
    /\ UNCHANGED <<envVars, loopVars, hostVars, concVars>>

\* response.text() rejects
TextRejects ==
    /\ spc = "text"
    /\ CatchAttempt("body")
    /\ UNCHANGED <<envVars, loopVars, hostVars, concVars>>

\* response.json() resolves with data
JsonResolves(data) ==
    /\ spc = "json"
    /\ IF "null" \in DOMAIN data
       THEN CatchAttempt("body")        \* data.organic throws a TypeError
       ELSE IF "organic" \notin DOMAIN data \/ Len(data.organic) = 0
       THEN IF attempt = MAX_ATTEMPTS
               THEN /\ Resolve(generateMockResults(cleanedQuery), TRUE)
                    /\ UNCHANGED delivered
               ELSE \* continue: the next attempt starts with no wait
                    /\ waits' = Append(waits, [attempt |-> attempt,
                                                failure |-> "empty", ms |-> 0])
                    /\ NextAttempt(attempt + 1)
       ELSE \* return data.organic
            /\ Resolve(data.organic, FALSE)
            /\ delivered' = data.organic
    /\ UNCHANGED <<envVars, loopVars, hostVars, concVars>>

\* response.json() rejects: the body cannot be parsed
JsonRejects ==
    /\ spc = "json"
    /\ CatchAttempt("body")
    /\ UNCHANGED <<envVars, loopVars, hostVars, concVars>>

\* the backoff timer fires and the for loop starts the next attempt
BackoffElapses ==
    /\ spc = "backoff"
    /\ NextAttempt(attempt + 1)
    /\ UNCHANGED waits
    /\ UNCHANGED <<envVars, loopVars, hostVars, concVars>>

----------------------------------------------------------------------------
(* The language model *)

\* a completion: status "error" when openai.chat.completions.create rejects;
\* content <<>> when choices[0]?.message?.content is missing or empty
Reply(status, content) == [ status |-> status, content |-> content ]

PlanTexts == { <<>>, <<"Compare range, price and charging.">> }

RefineTexts ==
    { <<>>,
      <<"electric cars range">>,
      <<" ", "\"", "electric cars range", "\"", "\n">>,
      \* a reply wrapped in two pairs of quotes
      <<"\"", "\"", "electric cars range", "\"", "\"">> }

AnalysisTexts ==
    { <<>>,
      <<"Search for something else.">>,
      <<"We now have ", "sufficient information", ".">>,
      <<"There is ", "enough information", " to answer.">>,
      \* "insufficient information" contains "sufficient information"
      <<"There is in", "sufficient information", " so far.">> }

SynthesisTexts == { <<>>, <<"Here is the answer.">> }

Replies(texts) == { Reply("ok", t) : t \in texts } \cup { Reply("error", <<>>) }

\* the queries a request may carry
Queries ==
    { <<"best electric cars 2024">>,
      <<"\"", "best electric cars 2024", "\"">>,
      <<"Analyzing results", " of electric car tests">> }

----------------------------------------------------------------------------
(* JSON text of a response: NextResponse.json and response.json() *)

DQ == "\""

\* a serializer that writes string contents as they are
EscapeTokenVerbatim(t) == t

\* JSON.stringify escapes the quote, the backslash and the line feed of a string
EscapeToken(t) ==
    CASE t = "\"" -> "\\\""
      [] t = "\\" -> "\\\\"
      [] t = "\n" -> "\\n"
      [] OTHER    -> t

UnescapeToken(t) ==
    CASE t = "\\\"" -> "\""
      [] t = "\\\\" -> "\\"
      [] t = "\\n"  -> "\n"
      [] OTHER      -> t

JsonString(text) ==
    <<DQ>> \o [ k \in 1..Len(text) |-> EscapeToken(text[k]) ] \o <<DQ>>

\* a step object; a property whose value is undefined is left out
JsonStep(step) ==
    <<"{", "\"thought\":">> \o JsonString(step.thought)
        \o <<",", "\"action\":">> \o JsonString(step.action)
        \o <<",", "\"observation\":">> \o JsonString(step.observation)
        \o (IF "reflection" \in DOMAIN step
            THEN <<",", "\"reflection\":">> \o JsonString(step.reflection)
            ELSE <<>>)
        \o <<"}">>

RECURSIVE JsonSteps(_)
JsonSteps(steps) ==
    IF steps = <<>> THEN <<>>
    ELSE JsonStep(Head(steps))
             \o (IF Tail(steps) = <<>> THEN <<>> ELSE <<",">> \o JsonSteps(Tail(steps)))

JsonResponse(response) ==
    <<"{", "\"traceSteps\":", "[">> \o JsonSteps(response.traceSteps)
        \o <<"]", ",", "\"finalOutput\":">> \o JsonString(response.finalOutput)
        \o <<"}">>

\* NextResponse.json({ chatId, response })
JsonBody(chatId, response) ==
    <<"{", "\"chatId\":">> \o JsonString(chatId)
        \o <<",", "\"response\":">> \o JsonResponse(response) \o <<"}">>

KeyName(t) ==
    CASE t = "\"thought\":"     -> "thought"
      [] t = "\"action\":"      -> "action"
      [] t = "\"observation\":" -> "observation"
      [] t = "\"reflection\":"  -> "reflection"
      [] t = "\"traceSteps\":"  -> "traceSteps"
      [] t = "\"finalOutput\":" -> "finalOutput"
      [] t = "\"chatId\":"      -> "chatId"
      [] t = "\"response\":"    -> "response"
      [] OTHER                  -> ""

\* the result of a failed parse (JSON.parse throws a SyntaxError)
SyntaxError == [ ok |-> FALSE, val |-> <<>>, next |-> 0 ]

Parsed(val, next) == [ ok |-> TRUE, val |-> val, next |-> next ]

\* a string: from the opening quote at p to the next unescaped quote
ParseString(s, p) ==
    LET ends == { e \in (p + 1)..Len(s) : s[e] = DQ } IN
    IF ends = {} THEN SyntaxError
    ELSE LET e == CHOOSE x \in ends : \A y \in ends : x <= y IN
         Parsed([ k \in 1..(e - p - 1) |-> UnescapeToken(s[p + k]) ], e + 1)

RECURSIVE ParseValue(_, _)
RECURSIVE ParseMembers(_, _, _)
RECURSIVE ParseElements(_, _, _)

\* the members of an object from the key at p on; acc holds those read so far
ParseMembers(s, p, acc) ==
    IF p > Len(s) \/ KeyName(s[p]) = "" THEN SyntaxError
    ELSE LET v == ParseValue(s, p + 1) IN
         IF ~v.ok \/ v.next > Len(s) THEN SyntaxError
         ELSE LET acc2 == (KeyName(s[p]) :> v.val) @@ acc IN
              IF s[v.next] = "}" THEN Parsed(acc2, v.next + 1)
              ELSE IF s[v.next] = "," THEN ParseMembers(s, v.next + 1, acc2)
              ELSE SyntaxError

\* the elements of an array from the value at p on
ParseElements(s, p, acc) ==
    LET v == ParseValue(s, p) IN
    IF ~v.ok \/ v.next > Len(s) THEN SyntaxError
    ELSE IF s[v.next] = "]" THEN Parsed(Append(acc, v.val), v.next + 1)
    ELSE IF s[v.next] = "," THEN ParseElements(s, v.next + 1, Append(acc, v.val))
    ELSE SyntaxError

ParseValue(s, p) ==
    IF p > Len(s) THEN SyntaxError
    ELSE IF s[p] = DQ THEN ParseString(s, p)
    ELSE IF s[p] = "{" THEN
        IF p < Len(s) /\ s[p + 1] = "}" THEN Parsed(<<>>, p + 2)
        ELSE ParseMembers(s, p + 1, <<>>)
    ELSE IF s[p] = "[" THEN
        IF p < Len(s) /\ s[p + 1] = "]" THEN Parsed(<<>>, p + 2)
        ELSE ParseElements(s, p + 1, <<>>)
    ELSE SyntaxError

\* response.json() of the client: the whole text is one value
JsonParse(s) ==
    LET v == ParseValue(s, 1) IN
    IF v.ok /\ v.next = Len(s) + 1 THEN v ELSE SyntaxError

\* the chat id processQuery was called with
RequestChatId == <<"chat_", "1">>

----------------------------------------------------------------------------
(* generateResearchResponse *)

\* the default of performIterativeResearch's maxIterations parameter, used
\* when the caller passes no round cap
maxIterationsDefault == 3

maxIterations == 2

\* a failure cap that one failed round reaches
FailureCapOne == 2 - 1

\* a failure cap that two failed rounds do not reach
FailureCapThree == 2 + 1

FAILURE_CAP   == 2

PlanningThought == <<"I need to plan how to approach this research question.">>
SearchThought   == <<"I need to search for more specific information about this topic.">>
AnalysisThought == <<"I need to evaluate if these search results are helpful for my research.">>

WaitingObservation == <<"Waiting for search results...">>
MockObservation    == <<"Search returned no real results (using generated placeholders instead).">>
ErrorObservation   == <<"Error occurred during search.">>
ProceedNote        == <<" After multiple search failures, proceeding with available information.">>
FoundObservation(n) == <<"Found ">> \o NumText(n) \o <<" results for refined query.">>

\* a classification that takes one placeholder link for a synthetic batch
hasMockResultsSome(results) ==
    \E k \in 1..Len(results) :
        \/ Includes(results[k].link, <<"example.com">>)
        \/ Includes(results[k].link, <<"example.org">>)
        \/ Includes(results[k].link, <<"example.net">>)
        \/ Includes(results[k].link, <<"wikipedia.org/wiki/example">>)

\* searchResults.every(result => result.link.includes(...) || ...)
hasMockResults(results) ==
    \A k \in 1..Len(results) :
        \/ Includes(results[k].link, <<"example.com">>)
        \/ Includes(results[k].link, <<"example.org">>)
        \/ Includes(results[k].link, <<"example.net">>)
        \/ Includes(results[k].link, <<"wikipedia.org/wiki/example">>)

\* the step generatePlanningStep returns
PlanningStep(q, reply) ==
    [ thought     |-> PlanningThought,
      action      |-> <<"Initial planning for query: ", "\"">> \o q \o <<"\"">>,
      observation |-> <<"Received initial search results and created a research plan.">>,
      reflection  |-> IF reply.content # <<>> THEN reply.content
                      ELSE <<"No plan generated.">> ]

\* the query generateRefinedQuery returns
RefinedQuery(originalQuery, reply) ==
    StripQuotes(IF Trim(reply.content) # <<>> THEN Trim(reply.content)
                ELSE originalQuery)

\* the searchStep object of a round
NewSearchStep(rq) ==
    [ thought     |-> SearchThought,
      action      |-> <<"Searching for: ", "\"">> \o rq \o <<"\"">>,
      observation |-> WaitingObservation ]

\* the hasMockResults that analyzeSearchResults computes for itself
analysisHasMockResults(results) ==
    \A k \in 1..Len(results) :
        \/ Includes(results[k].link, <<"example.com">>)
        \/ Includes(results[k].link, <<"example.org">>)
        \/ Includes(results[k].link, <<"example.net">>)
        \/ Includes(results[k].link, <<"wikipedia.org/wiki/example">>)

\* the step analyzeSearchResults returns
AnalysisStep(q, results, reply) ==
    [ thought     |-> AnalysisThought,
      action      |-> <<"Analyzing results", " from query: ", "\"">> \o q \o <<"\"">>,
      observation |-> IF analysisHasMockResults(results)
                      THEN <<"Analyzed ">> \o NumText(Len(results))
                             \o <<" placeholder results (no actual search results were found).">>
                      ELSE <<"Analyzed ">> \o NumText(Len(results))
                             \o <<" search results for relevance.">>,
      reflection  |-> IF reply.content # <<>> THEN reply.content
                      ELSE <<"No analysis generated.">> ]

\* a sufficiency test that knows one of the two markers only
IndicatesEnoughFirstOnly(step) ==
    /\ "reflection" \in DOMAIN step
    /\ Includes(step.reflection, <<"sufficient information">>)

\* analysisStep.reflection?.includes("sufficient information") || ...
IndicatesEnough(step) ==
    /\ "reflection" \in DOMAIN step
    /\ \/ Includes(step.reflection, <<"sufficient information">>)
       \/ Includes(step.reflection, <<"enough information">>)

\* a final output without the fallback text
FinalOutputRaw(reply) == reply.content

\* the text generateFinalOutput returns
FinalOutput(reply) ==
    IF reply.content # <<>> THEN reply.content
    ELSE <<"Unable to generate a response based on the research.">>

IsSearchStep(step)   == step.thought = SearchThought
IsAnalysisStep(step) == step.thought = AnalysisThought
IsPlanningStep(step) == step.thought = PlanningThought

\* step.reflection is truthy: present and not the empty string
HasReflection(step) == "reflection" \in DOMAIN step /\ step.reflection # <<>>

\* s.slice(-n)
SliceLast(s, n) == SubSeq(s, IF Len(s) > n THEN Len(s) - n + 1 ELSE 1, Len(s))

MatchesAnalysisFilter(step) ==
    Includes(step.action, <<"Analyzing results">>) /\ HasReflection(step)

\* essentialSteps without the filter: the planning step and the last two steps
EssentialStepsUnfiltered(ts) == <<ts[1]>> \o SliceLast(ts, 2)

\* generateFinalOutput: [traceSteps[0], ...traceSteps.filter(...).slice(-2)]
EssentialSteps(ts) ==
    <<ts[1]>> \o SliceLast(SelectSeq(ts, MatchesAnalysisFilter), 2)

\* a continuation that runs although the awaited call has not settled
ResumeUnsettled(kind) ==
    outstanding' = outstanding \cup (IF calls' # calls THEN {Len(calls')} ELSE {})

\* the continuation after "await <call of kind>": that call has settled, and
\* the call the continuation issues, if any, is outstanding
Resume(kind) ==
    outstanding' = { k \in outstanding : calls[k] # kind }
                       \cup (IF calls' # calls THEN {Len(calls')} ELSE {})

\* performSearch has resolved and its caller resumes
ReleaseSearch ==
    /\ spc' = "idle"
    /\ sQuery' = <<>>
    /\ cleanedQuery' = <<>>
    /\ attempt' = 0
    /\ timerArmed' = FALSE
    /\ timerMs' = 0
    /\ fetches' = 0
    /\ waits' = <<>>
    /\ searchReturn' = <<>>
    /\ usedFallback' = FALSE
    /\ delivered' = <<>>

\* a rejected model call outside every try block: the error reaches the caller
Throw(kind) ==
    /\ outcome' = "thrown"
    /\ error' = <<"model call failed">>
    /\ failedCalls' = failedCalls \cup {kind}
    /\ pc' = "done"

\* the loop is left; generateFinalOutput issues the synthesis call
IssueSynthesis ==
    /\ essentialSteps' = EssentialSteps(traceSteps')
    /\ pc' = "await_synthesis"
    /\ calls' = Append(calls, "synthesis")

\* for (...; i < maxIterations; i++): the next round starts with the
\* refined-query call, or the loop ends
LoopTest(n) ==
    /\ i' = n
    /\ IF n < maxIterations
       THEN /\ pc' = "await_refine"
            /\ calls' = Append(calls, "refine")
            /\ UNCHANGED essentialSteps
       ELSE IssueSynthesis

\* a break that ends the invocation instead of going on to the synthesis
BreakAsError ==
    /\ i' = i
    /\ pc' = "done"
    /\ UNCHANGED <<calls, essentialSteps>>

\* break
Break ==
    /\ i' = i
    /\ IssueSynthesis

\* processQuery: await performSearch(query)
ProcessQuery ==
    /\ pc = "start"
    /\ pc' = "await_initial_search"
    /\ CallPerformSearch(query)
    /\ UNCHANGED <<envVars, initialSearchResults, traceSteps, i, consecutiveFailures,
                   refinedQuery, searchStep, searchResults, finalOutput, outcome,
                   error, calls, failedCalls, allFallback, outstanding,
                   essentialSteps, responseBody>>
    /\ UNCHANGED <<hostVars, concVars>>

\* a client that is built without looking at the credential
initOpenAINeverThrows == FALSE

\* initOpenAI throws when OPENAI_API_KEY is not set
initOpenAIThrows == ~OPENAI_API_KEY

\* processQuery resumes and calls generateResearchResponse: initOpenAI, then
\* the planning call
GenerateResearchResponse ==
    /\ pc = "await_initial_search"
    /\ spc = "resolved"
    /\ initialSearchResults' = searchReturn
    /\ allFallback' = (allFallback /\ usedFallback)
    /\ ReleaseSearch
    /\ IF initOpenAIThrows
       THEN /\ outcome' = "thrown"
            /\ error' = <<"OPENAI_API_KEY is not defined in environment variables">>
            /\ pc' = "done"
            /\ UNCHANGED calls
       ELSE /\ pc' = "await_planning"
            /\ calls' = Append(calls, "planning")
            /\ UNCHANGED <<outcome, error>>
    /\ Resume("initial search")
    /\ UNCHANGED <<envVars, traceSteps, i, consecutiveFailures, refinedQuery, searchStep,
                   searchResults, finalOutput, failedCalls, essentialSteps,
                   responseBody>>
    /\ UNCHANGED <<hostVars, concVars>>

\* the planning call completes; performIterativeResearch starts.  The
\* initial results are read by the planning prompt only and are dropped here.
PlanningReturns(reply) ==
    /\ pc = "await_planning"
    /\ initialSearchResults' = <<>>
    /\ IF reply.status = "error"
       THEN /\ Throw("planning")
            /\ UNCHANGED <<traceSteps, i, consecutiveFailures, calls, essentialSteps>>
       ELSE /\ traceSteps' = Append(traceSteps, PlanningStep(query, reply))
            /\ consecutiveFailures' = 0
            /\ LoopTest(0)
            /\ UNCHANGED <<outcome, error, failedCalls>>
    /\ Resume("planning")
    /\ UNCHANGED <<envVars, searchVars, refinedQuery, searchStep, searchResults,
                   finalOutput, allFallback, responseBody>>
    /\ UNCHANGED <<hostVars, concVars>>

\* the refined-query call completes; the search step is pushed and
\* performSearch is called
RefineReturns(reply) ==
    /\ pc = "await_refine"
    /\ IF reply.status = "error"
       THEN /\ Throw("refine")
            /\ UNCHANGED <<traceSteps, refinedQuery, searchStep, calls, searchVars>>
       ELSE LET rq == RefinedQuery(query, reply) IN
            /\ refinedQuery' = rq
            /\ traceSteps' = Append(traceSteps, NewSearchStep(rq))
            /\ searchStep' = Len(traceSteps) + 1
            /\ calls' = Append(calls, "search")
            /\ CallPerformSearch(rq)
            /\ pc' = "await_search"
            /\ UNCHANGED <<outcome, error, failedCalls>>
    /\ Resume("refine")
    /\ UNCHANGED <<envVars, initialSearchResults, i, consecutiveFailures, searchResults,
                   finalOutput, allFallback, essentialSteps, responseBody>>
    /\ UNCHANGED <<hostVars, concVars>>

\* an assignment that lands on the first element of the trace
SetObservationOfFirst(text) ==
    traceSteps' = [traceSteps EXCEPT ![1].observation = text]

\* searchStep.observation = text: searchStep is the object pushed to traceSteps
SetObservation(text) ==
    traceSteps' = [traceSteps EXCEPT ![searchStep].observation = text]

\* the block-scoped refinedQuery, searchStep and searchResults of a round
\* go out of scope
EndRound ==
    /\ refinedQuery' = <<>>
    /\ searchStep' = 0
    /\ searchResults' = <<>>

\* performSearch resolves in a round: the results are classified and the
\* analysis call is issued, or the loop is left
SearchReturns ==
    /\ pc = "await_search"
    /\ spc = "resolved"
    /\ allFallback' = (allFallback /\ usedFallback)
    /\ ReleaseSearch
    /\ IF hasMockResults(searchReturn)
       THEN /\ consecutiveFailures' = consecutiveFailures + 1
            /\ IF consecutiveFailures + 1 >= FAILURE_CAP
               THEN /\ SetObservation(MockObservation \o ProceedNote)
                    /\ Break
                    /\ EndRound
               ELSE /\ SetObservation(MockObservation)
                    /\ searchResults' = searchReturn
                    /\ pc' = "await_analysis"
                    /\ calls' = Append(calls, "analysis")
                    /\ UNCHANGED <<i, refinedQuery, searchStep, essentialSteps>>
       ELSE /\ consecutiveFailures' = 0
            /\ SetObservation(FoundObservation(Len(searchReturn)))
            /\ searchResults' = searchReturn
            /\ pc' = "await_analysis"
            /\ calls' = Append(calls, "analysis")
            /\ UNCHANGED <<i, refinedQuery, searchStep, essentialSteps>>
    /\ Resume("search")
    /\ UNCHANGED <<envVars, initialSearchResults, finalOutput, outcome, error,
                   failedCalls, responseBody>>
    /\ UNCHANGED <<hostVars, concVars>>

\* the analysis call completes inside the try block of the round
AnalysisReturns(reply) ==
    /\ pc = "await_analysis"
    /\ IF reply.status = "error"
       THEN \* catch (error)
            /\ failedCalls' = failedCalls \cup {"analysis"}
            /\ consecutiveFailures' = consecutiveFailures + 1
            /\ IF consecutiveFailures + 1 >= FAILURE_CAP
               THEN /\ SetObservation(ErrorObservation \o ProceedNote)
                    /\ Break
               ELSE /\ SetObservation(ErrorObservation)
                    /\ LoopTest(i + 1)
       ELSE LET analysisStep == AnalysisStep(refinedQuery, searchResults, reply) IN
            /\ traceSteps' = Append(traceSteps, analysisStep)
            /\ IF IndicatesEnough(analysisStep) THEN Break ELSE LoopTest(i + 1)
            /\ UNCHANGED <<consecutiveFailures, failedCalls>>
    /\ EndRound
    /\ Resume("analysis")
    /\ UNCHANGED <<envVars, searchVars, initialSearchResults, finalOutput, outcome,
                   error, allFallback, responseBody>>
    /\ UNCHANGED <<hostVars, concVars>>

\* the synthesis call completes; generateResearchResponse returns and
\* processQuery responds with the chat id and the response
SynthesisReturns(reply) ==
    /\ pc = "await_synthesis"
    /\ IF reply.status = "error"
       THEN /\ Throw("synthesis")
            /\ UNCHANGED <<finalOutput, responseBody>>
       ELSE /\ finalOutput' = FinalOutput(reply)
            /\ responseBody' = JsonBody(RequestChatId,
                                   [ traceSteps  |-> traceSteps,
                                     finalOutput |-> FinalOutput(reply) ])
            /\ outcome' = "returned"
            /\ pc' = "done"
            /\ UNCHANGED <<error, failedCalls>>
    /\ UNCHANGED <<envVars, searchVars, initialSearchResults, traceSteps, i,
                   consecutiveFailures, refinedQuery, searchStep, searchResults,
                   calls, allFallback, essentialSteps>>
    /\ Resume("synthesis")
    /\ UNCHANGED <<hostVars, concVars>>

----------------------------------------------------------------------------
(* The chat store *)

\* uuidv4(): a value never drawn before; the model's values also name the
\* request that drew them
Uuid(r, k) == <<r, uuidCount + k>>

NoChats == [ id \in {} |-> id ]

UserMessage(id, content) ==
    [ id |-> id, content |-> content, isUser |-> TRUE ]

AgentMessage(id, response) ==
    [ id |-> id, content |-> response.finalOutput, isUser |-> FALSE,
      response |-> response ]

\* chatStore.chats[chatId].messages.push(message), if the chat exists
PushMessage(chatId, message) ==
    IF chatId \in DOMAIN chatStore
    THEN [ chatStore EXCEPT ![chatId].messages = Append(@, message) ]
    ELSE chatStore

\* createChat(query) with chatId <<r, uuidCount + 1>>
createChat(r, text) ==
    [ id \in DOMAIN chatStore \cup {Uuid(r, 1)} |->
        IF id = Uuid(r, 1)
        THEN [ id |-> id, title |-> text,
               messages |-> <<UserMessage(Uuid(r, 2), text)>> ]
        ELSE chatStore[id] ]

addUserMessageToChat(r, chatId, text) ==
    PushMessage(chatId, UserMessage(Uuid(r, 1), text))

addAgentResponseToChat(r, chatId, response) ==
    PushMessage(chatId, AgentMessage(Uuid(r, 1), response))

\* the uuids an add...ToChat call draws
DrawnByAdd(chatId) == IF chatId \in DOMAIN chatStore THEN 1 ELSE 0

----------------------------------------------------------------------------
(* POST /api/ask *)

MaxRequests == 2

Requests == 1..MaxRequests

REQUEST_TIMEOUT == 180000

\* the values the body's query may have
StringQuery(text) == [ type |-> "string", text |-> text ]

QueryInputs ==
    { StringQuery(<<"best electric cars 2024">>),
      StringQuery(<<"and which is the cheapest?">>),
      StringQuery(<<>>),
      [ type |-> "undefined", text |-> <<>> ],
      [ type |-> "number", text |-> <<>> ] }

\* a validation that only looks at the type
ValidQueryAnyString(q) == q.type = "string"

\* !(!query || typeof query !== "string")
ValidQuery(q) == q.type = "string" /\ q.text # <<>>

\* the body carries no chatId
NoChatId == <<>>

\* a chat id the store does not hold, such as one from before a restart
StaleChatId == <<0, 0>>

ChatIdInputs == {NoChatId, StaleChatId} \cup DOMAIN chatStore

\* a response generateResearchResponse may resolve with
SampleResponse(text) ==
    [ traceSteps |->
        << PlanningStep(text, Reply("ok", <<"Compare range, price and charging.">>)),
           [ NewSearchStep(text) EXCEPT !.observation = FoundObservation(1) ],
           AnalysisStep(text, <<ProviderResult(<<"https://", "cars.test", "/ranking">>, 1)>>,
                        Reply("ok", <<"We now have ", "sufficient information", ".">>)) >>,
      finalOutput |-> <<"Here is the answer.">> ]

\* the errors generateResearchResponse may reject with
GenerateErrors ==
    { <<"OPENAI_API_KEY is not defined in environment variables">>,
      <<"model call failed">> }

TimedOut == <<"Request timed out">>

\* the response the catch block of POST builds
ErrorResponse(message) ==
    [ traceSteps |->
        << [ thought     |-> <<"Error occurred during processing">>,
             action      |-> <<"Error handling">>,
             observation |-> <<"An error occurred while processing your request.">>,
             reflection  |-> message ] >>,
      finalOutput |-> <<"I apologize, but I encountered an error while processing your request. Please try again with a more specific query or check your internet connection.">> ]

Unsent ==
    [ phase         |-> "unsent",    \* "unsent", "racing" or "answered"
      query         |-> [ type |-> "undefined", text |-> <<>> ],
      chatId        |-> NoChatId,
      currentChatId |-> NoChatId,
      pq            |-> "none",      \* processQuery: "none", "await_search",
                                     \* "await_generate" or "settled"
      timer         |-> "unset",     \* "unset", "armed" or "fired"
      timerMs       |-> 0,
      context       |-> <<>>,
      failure       |-> <<>>,        \* the error processQuery rejected with
      answeredBy    |-> "none",      \* "invalid", "result", "failure", "timeout"
      status        |-> 0,
      body          |-> [ error |-> <<>> ],
      agentAppends  |-> 0 ]          \* agent messages pushed for this request

HostIdle ==
    /\ chatStore = NoChats
    /\ uuidCount = 0
    /\ requests = [ r \in Requests |-> Unsent ]

\* recentMessages.map(...).join('\n\n')
RECURSIVE FormatContext(_)
FormatContext(messages) ==
    IF messages = <<>> THEN <<>>
    ELSE LET line == (IF Head(messages).isUser THEN <<"User: ">> ELSE <<"Assistant: ">>)
                         \o Head(messages).content
         IN line \o (IF Tail(messages) = <<>> THEN <<>>
                     ELSE <<"\n\n">> \o FormatContext(Tail(messages)))

\* the context processQuery builds from the stored chat
Context(chatId) ==
    IF chatId \in DOMAIN chatStore /\ Len(chatStore[chatId].messages) > 1
    THEN FormatContext(SliceLast(chatStore[chatId].messages, 6))
    ELSE <<>>

\* POST up to await Promise.race: validation, the user message, the start of
\* processQuery up to its await performSearch, and the timeout timer
Post(r, q, c) ==
    /\ requests[r].phase = "unsent"
    /\ \A s \in 1..(r - 1) : requests[s].phase # "unsent"
    /\ IF ~ValidQuery(q)
       THEN /\ requests' = [ requests EXCEPT ![r] =
                   [ @ EXCEPT !.phase = "answered", !.query = q, !.chatId = c,
                              !.answeredBy = "invalid", !.status = 400,
                              !.body = [ error |-> <<"Valid query parameter is required">> ] ] ]
            /\ UNCHANGED <<chatStore, uuidCount>>
       ELSE /\ IF c # NoChatId
               THEN /\ chatStore' = addUserMessageToChat(r, c, q.text)
                    /\ uuidCount' = uuidCount + DrawnByAdd(c)
               ELSE /\ chatStore' = createChat(r, q.text)
                    /\ uuidCount' = uuidCount + 2
            /\ requests' = [ requests EXCEPT ![r] =
                   [ @ EXCEPT !.phase = "racing", !.query = q, !.chatId = c,
                              !.currentChatId = IF c # NoChatId THEN c ELSE Uuid(r, 1),
                              !.pq = "await_search",
                              !.timer = "armed", !.timerMs = REQUEST_TIMEOUT ] ]
    /\ UNCHANGED <<envVars, loopVars, searchVars, concVars>>

\* processQuery resumes after performSearch: getChat, the context, and the
\* call of generateResearchResponse
SearchResolves(r) ==
    /\ requests[r].pq = "await_search"
    /\ requests' = [ requests EXCEPT ![r] =
           [ @ EXCEPT !.pq = "await_generate",
                      !.context = Context(requests[r].currentChatId) ] ]
    /\ UNCHANGED <<chatStore, uuidCount>>
    /\ UNCHANGED <<envVars, loopVars, searchVars, concVars>>

\* the handler answers with chatId and response, if the race is still open
Answer(r, by, response, pushed) ==
    IF requests[r].phase = "racing"
    THEN [ requests[r] EXCEPT !.phase = "answered", !.answeredBy = by, !.status = 200,
                              !.body = [ chatId   |-> requests[r].currentChatId,
                                         response |-> response ],
                              !.agentAppends = @ + pushed ]
    ELSE [ requests[r] EXCEPT !.agentAppends = @ + pushed ]

\* generateResearchResponse resolves: processQuery stores the response and
\* resolves, and the handler returns it if the timeout has not won
GenerateResolves(r, response) ==
    /\ requests[r].pq = "await_generate"
    /\ chatStore' = addAgentResponseToChat(r, requests[r].currentChatId, response)
    /\ uuidCount' = uuidCount + DrawnByAdd(requests[r].currentChatId)
    /\ requests' = [ requests EXCEPT ![r] =
           [ Answer(r, "result", response, DrawnByAdd(requests[r].currentChatId))
               EXCEPT !.pq = "settled" ] ]
    /\ UNCHANGED <<envVars, loopVars, searchVars, concVars>>

\* the catch block of POST: the error response is stored and returned
Catch(r, by, message) ==
    /\ chatStore' = addAgentResponseToChat(r, requests[r].currentChatId,
                                           ErrorResponse(message))
    /\ uuidCount' = uuidCount + DrawnByAdd(requests[r].currentChatId)
    /\ requests' = [ requests EXCEPT ![r] =
           [ Answer(r, by, ErrorResponse(message), DrawnByAdd(requests[r].currentChatId))
               EXCEPT !.pq = IF by = "failure" THEN "settled" ELSE @,
                      !.failure = IF by = "failure" THEN message ELSE @,
                      !.timer = IF by = "timeout" THEN "fired" ELSE @ ] ]

\* generateResearchResponse rejects, and with it processQuery
GenerateRejects(r, message) ==
    /\ requests[r].pq = "await_generate"
    /\ IF requests[r].phase = "racing"
       THEN Catch(r, "failure", message)
       ELSE /\ requests' = [ requests EXCEPT ![r] =
                   [ @ EXCEPT !.pq = "settled", !.failure = message ] ]
            /\ UNCHANGED <<chatStore, uuidCount>>
    /\ UNCHANGED <<envVars, loopVars, searchVars, concVars>>

\* the timeout timer fires; it is never cleared
TimeoutFires(r) ==
    /\ requests[r].timer = "armed"
    /\ IF requests[r].phase = "racing"
       THEN Catch(r, "timeout", TimedOut)
       ELSE /\ requests' = [ requests EXCEPT ![r] = [ @ EXCEPT !.timer = "fired" ] ]
            /\ UNCHANGED <<chatStore, uuidCount>>
    /\ UNCHANGED <<envVars, loopVars, searchVars, concVars>>

\* DELETE /api/chats: clearAllChats()
ClearAllChats ==
    /\ chatStore # NoChats
    /\ chatStore' = NoChats
    /\ UNCHANGED <<uuidCount, requests>>
    /\ UNCHANGED <<envVars, loopVars, searchVars, concVars>>

----------------------------------------------------------------------------
(* Two invocations on one event loop *)

NoInvocation == [ pc |-> "none" ]

SingleInvocation ==
    /\ running = 1
    /\ parked = NoInvocation

\* the queries of the two invocations
QueryA == <<"best electric cars 2024">>
QueryB == <<"cheapest phone plans">>

\* the locals of the running invocation
Locals ==
    [ query                |-> query,
      pc                   |-> pc,
      initialSearchResults |-> initialSearchResults,
      traceSteps           |-> traceSteps,
      i                    |-> i,
      consecutiveFailures  |-> consecutiveFailures,
      refinedQuery         |-> refinedQuery,
      searchStep           |-> searchStep,
      searchResults        |-> searchResults,
      finalOutput          |-> finalOutput,
      outcome              |-> outcome,
      error                |-> error,
      calls                |-> calls,
      failedCalls          |-> failedCalls,
      allFallback          |-> allFallback,
      outstanding          |-> outstanding,
      essentialSteps       |-> essentialSteps,
      responseBody         |-> responseBody,
      spc                  |-> spc,
      sQuery               |-> sQuery,
      cleanedQuery         |-> cleanedQuery,
      attempt              |-> attempt,
      timerArmed           |-> timerArmed,
      timerMs              |-> timerMs,
      fetches              |-> fetches,
      waits                |-> waits,
      searchReturn         |-> searchReturn,
      usedFallback         |-> usedFallback,
      delivered            |-> delivered ]

\* the locals of an invocation of processQuery(q) that has not taken a step
FreshLocals(q) ==
    [ query                |-> q,
      pc                   |-> "start",
      initialSearchResults |-> <<>>,
      traceSteps           |-> <<>>,
      i                    |-> 0,
      consecutiveFailures  |-> 0,
      refinedQuery         |-> <<>>,
      searchStep           |-> 0,
      searchResults        |-> <<>>,
      finalOutput          |-> <<>>,
      outcome              |-> "running",
      error                |-> <<>>,
      calls                |-> <<>>,
      failedCalls          |-> {},
      allFallback          |-> TRUE,
      outstanding          |-> {},
      essentialSteps       |-> <<>>,
      responseBody         |-> <<>>,
      spc                  |-> "idle",
      sQuery               |-> <<>>,
      cleanedQuery         |-> <<>>,
      attempt              |-> 0,
      timerArmed           |-> FALSE,
      timerMs              |-> 0,
      fetches              |-> 0,
      waits                |-> <<>>,
      searchReturn         |-> <<>>,
      usedFallback         |-> FALSE,
      delivered            |-> <<>> ]

\* a traceSteps array at module level, one for every invocation
ModuleLevelTraceSteps == traceSteps

\* const traceSteps = [] in the body of generateResearchResponse: the
\* continuations of an invocation see the array that invocation created
OwnTraceSteps == parked.traceSteps

\* let consecutiveFailures = 0 in the body of performIterativeResearch
OwnConsecutiveFailures == parked.consecutiveFailures

\* the event loop runs a continuation of the other invocation next: the
\* running invocation stays suspended at its await
Switch ==
    /\ parked # NoInvocation
    /\ running' = 3 - running
    /\ parked' = Locals
    /\ query' = parked.query
    /\ pc' = parked.pc
    /\ initialSearchResults' = parked.initialSearchResults
    /\ traceSteps' = OwnTraceSteps
    /\ i' = parked.i
    /\ consecutiveFailures' = OwnConsecutiveFailures
    /\ refinedQuery' = parked.refinedQuery
    /\ searchStep' = parked.searchStep
    /\ searchResults' = parked.searchResults
    /\ finalOutput' = parked.finalOutput
    /\ outcome' = parked.outcome
    /\ error' = parked.error
    /\ calls' = parked.calls
    /\ failedCalls' = parked.failedCalls
    /\ allFallback' = parked.allFallback
    /\ outstanding' = parked.outstanding
    /\ essentialSteps' = parked.essentialSteps
    /\ responseBody' = parked.responseBody
    /\ spc' = parked.spc
    /\ sQuery' = parked.sQuery
    /\ cleanedQuery' = parked.cleanedQuery
    /\ attempt' = parked.attempt
    /\ timerArmed' = parked.timerArmed
    /\ timerMs' = parked.timerMs
    /\ fetches' = parked.fetches
    /\ waits' = parked.waits
    /\ searchReturn' = parked.searchReturn
    /\ usedFallback' = parked.usedFallback
    /\ delivered' = parked.delivered
    /\ UNCHANGED <<OPENAI_API_KEY, SERPER_API_KEY, hostVars>>

\* the replies of the model in the runs with two invocations
PlanRepliesTwo == { Reply("ok", <<"Compare the options.">>) }
RefineRepliesTwo == { Reply("ok", <<>>), Reply("ok", query \o <<" review">>) }
AnalysisRepliesTwo ==
    { Reply("ok", <<"Search for something else.">>), Reply("error", <<>>) }
SynthesisRepliesTwo == { Reply("ok", <<"Here is the answer.">>) }

\* the body the provider answers with in these runs
OneResultBody ==
    [ organic |-> <<ProviderResult(<<"https://", "cars.test", "/ranking">>, 1)>> ]

----------------------------------------------------------------------------
(* Specification *)

\* the locals of an invocation of processQuery that has not taken a step
LoopInit ==
    /\ pc = "start"
    /\ initialSearchResults = <<>>
    /\ traceSteps = <<>>
    /\ i = 0
    /\ consecutiveFailures = 0
    /\ refinedQuery = <<>>
    /\ searchStep = 0
    /\ searchResults = <<>>
    /\ finalOutput = <<>>
    /\ outcome = "running"
    /\ error = <<>>
    /\ calls = <<>>
    /\ failedCalls = {}
    /\ allFallback = TRUE
    /\ outstanding = {}
    /\ essentialSteps = <<>>
    /\ responseBody = <<>>
    /\ SearchIdle

Init ==
    /\ OPENAI_API_KEY \in BOOLEAN
    /\ SERPER_API_KEY \in BOOLEAN
    /\ query \in Queries
    /\ LoopInit
    /\ HostIdle
    /\ SingleInvocation

Next ==
    \/ ProcessQuery
    \/ GenerateResearchResponse
    \/ \E reply \in Replies(PlanTexts) : PlanningReturns(reply)
    \/ \E reply \in Replies(RefineTexts) : RefineReturns(reply)
    \/ SearchReturns
    \/ \E reply \in Replies(AnalysisTexts) : AnalysisReturns(reply)
    \/ \E reply \in Replies(SynthesisTexts) : SynthesisReturns(reply)
    \/ \E ok \in BOOLEAN : FetchResponds(ok)
    \/ FetchRejects
    \/ AbortTimerFires
    \/ TextResolves
    \/ TextRejects
    \/ \E data \in ProviderBodies : JsonResolves(data)
    \/ JsonRejects
    \/ BackoffElapses

Spec == Init /\ [][Next]_vars

\* a model call that was issued completes or fails
ModelCallSettles ==
    \/ \E reply \in Replies(PlanTexts) : PlanningReturns(reply)
    \/ \E reply \in Replies(RefineTexts) : RefineReturns(reply)
    \/ \E reply \in Replies(AnalysisTexts) : AnalysisReturns(reply)
    \/ \E reply \in Replies(SynthesisTexts) : SynthesisReturns(reply)

\* what a provider call awaits, the fetch, the body or the wait before the
\* next attempt, completes or fails
GatewaySettles ==
    \/ \E ok \in BOOLEAN : FetchResponds(ok)
    \/ FetchRejects
    \/ AbortTimerFires
    \/ TextResolves
    \/ TextRejects
    \/ \E data \in ProviderBodies : JsonResolves(data)
    \/ JsonRejects
    \/ BackoffElapses

\* the event loop runs a continuation whose awaited promise has resolved
ContinuationRuns ==
    \/ ProcessQuery
    \/ GenerateResearchResponse
    \/ SearchReturns

\* one invocation whose calls all complete or fail
FairSpec ==
    /\ Init
    /\ [][Next]_vars
    /\ WF_vars(ModelCallSettles)
    /\ WF_vars(GatewaySettles)
    /\ WF_vars(ContinuationRuns)

\* the handler and the store on their own: generateResearchResponse is taken
\* by its outcome, a response or an error
PostInit ==
    /\ OPENAI_API_KEY = TRUE
    /\ SERPER_API_KEY = TRUE
    /\ query = <<>>
    /\ LoopInit
    /\ HostIdle
    /\ SingleInvocation

PostNext ==
    \/ \E r \in Requests, q \in QueryInputs, c \in ChatIdInputs : Post(r, q, c)
    \/ \E r \in Requests : SearchResolves(r)
    \/ \E r \in Requests : GenerateResolves(r, SampleResponse(requests[r].query.text))
    \/ \E r \in Requests, message \in GenerateErrors : GenerateRejects(r, message)
    \/ \E r \in Requests : TimeoutFires(r)
    \/ ClearAllChats

PostSpec == PostInit /\ [][PostNext]_vars

\* two requests whose invocations of processQuery interleave at their awaits
TwoInit ==
    /\ OPENAI_API_KEY = TRUE
    /\ SERPER_API_KEY \in BOOLEAN
    /\ query = QueryA
    /\ LoopInit
    /\ HostIdle
    /\ running = 1
    /\ parked = FreshLocals(QueryB)

TwoNext ==
    \/ Switch
    \/ ProcessQuery
    \/ GenerateResearchResponse
    \/ \E reply \in PlanRepliesTwo : PlanningReturns(reply)
    \/ \E reply \in RefineRepliesTwo : RefineReturns(reply)
    \/ SearchReturns
    \/ \E reply \in AnalysisRepliesTwo : AnalysisReturns(reply)
    \/ \E reply \in SynthesisRepliesTwo : SynthesisReturns(reply)
    \/ FetchResponds(TRUE)
    \/ JsonResolves(OneResultBody)

TwoSpec == TwoInit /\ [][TwoNext]_vars

----------------------------------------------------------------------------
(* Properties *)

Count(seq, x) == Cardinality({ k \in 1..Len(seq) : seq[k] = x })

SearchStepIxs   == { k \in 1..Len(traceSteps) : IsSearchStep(traceSteps[k]) }
AnalysisStepIxs == { k \in 1..Len(traceSteps) : IsAnalysisStep(traceSteps[k]) }

\* performIterativeResearch has returned: the synthesis call was issued
LoopLeft ==
    /\ pc \in {"await_synthesis", "done"}
    /\ calls # <<>>
    /\ calls[Len(calls)] = "synthesis"

LastStepHasNote ==
    /\ traceSteps # <<>>
    /\ IsSearchStep(traceSteps[Len(traceSteps)])
    /\ Includes(traceSteps[Len(traceSteps)].observation, ProceedNote)

HasMarker(text) ==
    \/ Includes(text, <<"sufficient information">>)
    \/ Includes(text, <<"enough information">>)

\* C1: whatever the model calls and the searches return, an invocation
\* issues at most 2 refined-query calls, at most 2 search-gateway calls and
\* at most 2 analysis calls.
C1_RoundCap ==
    /\ Count(calls, "refine") <= 2
    /\ Count(calls, "search") <= 2
    /\ Count(calls, "analysis") <= 2

C1_Witness ==
    /\ outcome = "returned"
    /\ Count(calls, "refine") = 2
    /\ Count(calls, "search") = 2
    /\ Count(calls, "analysis") = 2

\* two rounds of the invocation both recorded placeholder-only results
TwoMockRounds ==
    \E j, k \in SearchStepIxs :
        /\ j < k
        /\ Includes(traceSteps[j].observation, MockObservation)
        /\ Includes(traceSteps[k].observation, MockObservation)

\* C2 (as claimed): when two consecutive rounds both yield only
\* placeholder-domain results, the loop stops before the round cap is
\* reached (fewer than 2 rounds were started) and the search step of the
\* stopping round carries the note.
C2_Original ==
    TwoMockRounds =>
        /\ LoopLeft
        /\ Count(calls, "refine") < 2
        /\ LastStepHasNote

\* C2 (amended): when two consecutive rounds both yield only
\* placeholder-domain results, the loop stops in the second of them, which
\* is the last round the cap of 2 allows: that round's analysis call is not
\* issued, the loop index is still below the cap, and the search step of the
\* stopping round is the last trace step and carries the note.
C2_StopsInSecondRound ==
    TwoMockRounds =>
        /\ LoopLeft
        /\ Count(calls, "refine") = 2
        /\ Count(calls, "analysis") = 1
        /\ i = 1
        /\ LastStepHasNote

C2_Witness == TwoMockRounds /\ outcome = "returned"

\* C3 (as claimed): when every search of the request resolves with generated
\* results, the consecutive-failure count is 2 after round 1, the returned
\* trace has exactly one search step and a final output is produced.
C3_Original ==
    (allFallback /\ outcome = "returned") =>
        /\ Cardinality(SearchStepIxs) = 1
        /\ consecutiveFailures = 2
        /\ finalOutput # <<>>

\* C3 (amended): when every search of the request resolves with generated
\* results, the initial results are not counted: the count is 0 when round 1
\* searches and 1 when round 1's analysis call is issued, so round 1's
\* search does not halt the loop.  A returned trace has one search step only
\* if round 1's analysis reported sufficiency or failed; otherwise it has two,
\* the second carrying the note with the count at 2 and no analysis of its
\* own.  A final output is produced in either case.
C3_HaltsInSecondRound ==
    allFallback =>
        /\ (pc = "await_search" /\ i = 0) => consecutiveFailures = 0
        /\ (pc = "await_analysis" /\ i = 0) => consecutiveFailures = 1
        /\ outcome = "returned" =>
              /\ finalOutput # <<>>
              /\ Cardinality(SearchStepIxs) \in {1, 2}
              /\ Cardinality(SearchStepIxs) = 2 =>
                    /\ consecutiveFailures = 2
                    /\ LastStepHasNote
                    /\ Cardinality(AnalysisStepIxs) = 1
              /\ Cardinality(SearchStepIxs) = 1 =>
                    \/ "analysis" \in failedCalls
                    \/ \E k \in AnalysisStepIxs : HasMarker(traceSteps[k].reflection)

C3_Witness ==
    /\ allFallback
    /\ outcome = "returned"
    /\ Cardinality(SearchStepIxs) = 2

\* C4 (as claimed): a failed model call of the invocation (planning,
\* refined-query, analysis or synthesis) is not recovered: the invocation
\* has thrown and returns no response.
C4_ModelFailureAborts ==
    failedCalls # {} => outcome = "thrown"

\* C5: an analysis step whose reflection contains "sufficient information"
\* or "enough information" ends the loop: it is the last trace step, no
\* refined-query, search or analysis call follows its analysis call, and the
\* next call issued is the synthesis call.
C5_SufficiencyStops ==
    \A k \in AnalysisStepIxs :
        HasMarker(traceSteps[k].reflection) =>
            /\ k = Len(traceSteps)
            /\ pc \in {"await_synthesis", "done"}
            /\ Len(calls) >= 2
            /\ calls[Len(calls)] = "synthesis"
            /\ calls[Len(calls) - 1] = "analysis"

C5_Witness ==
    /\ outcome = "returned"
    /\ Count(calls, "refine") = 1
    /\ Len(traceSteps) = 3
    /\ Includes(traceSteps[3].reflection, <<"enough information">>)

\* C6: a returned response has at least one trace step, the first being the
\* planning step, and a non-empty finalOutput, also when model calls return
\* empty or missing text.
C6_ResponseShape ==
    outcome = "returned" =>
        /\ Len(traceSteps) >= 1
        /\ IsPlanningStep(traceSteps[1])
        /\ finalOutput # <<>>

C6_Witness ==
    /\ outcome = "returned"
    /\ traceSteps[1].reflection = <<"No plan generated.">>
    /\ finalOutput = <<"Unable to generate a response based on the research.">>

\* C7: performSearch never rejects, and whenever it resolves (after any
\* provider behaviour on each attempt, or with the credential absent) it
\* resolves with a non-empty sequence of results.
C7_SearchNeverFails ==
    /\ spc # "rejected"
    /\ spc = "resolved" =>
          /\ Len(searchReturn) >= 1
          /\ \A k \in 1..Len(searchReturn) :
                {"title", "link", "snippet", "position"} \subseteq DOMAIN searchReturn[k]

C7_Witness ==
    /\ spc = "resolved"
    /\ usedFallback
    /\ fetches = 3
    /\ waits[1].failure = "timeout"
    /\ waits[2].failure = "body"

\* C8 (as claimed): while an attempt is in flight (the code awaits the
\* response or its body) the 20-second abort timer of the attempt is pending.
C8_DeadlineCoversAttempt ==
    InFlight => (timerArmed /\ timerMs = 20000)

\* C9: a performSearch call makes one provider call per attempt and at most
\* 3 of them; every failed attempt before the third is followed by another
\* attempt, so the fallback is used only after exactly 3 provider calls; a
\* non-empty result set ends the call at that attempt.
C9_AttemptCap ==
    /\ fetches <= 3
    /\ (spc # "idle" /\ SERPER_API_KEY) =>
          /\ fetches = attempt
          /\ Len(waits) = (IF spc = "backoff" THEN attempt ELSE attempt - 1)
          /\ \A k \in 1..Len(waits) : waits[k].attempt = k
    /\ (spc = "resolved" /\ usedFallback /\ SERPER_API_KEY) => fetches = 3
    /\ (spc = "resolved" /\ ~usedFallback) =>
          /\ searchReturn # <<>>
          /\ fetches = Len(waits) + 1

C9_Witness ==
    /\ spc = "resolved"
    /\ ~usedFallback
    /\ fetches = 3
    /\ waits[1].failure = "non2xx"
    /\ waits[2].failure = "empty"

\* C10 (as claimed): every wait between a failed attempt k and attempt k+1
\* is k times one fixed positive unit, the same for every failure kind.
C10_UniformBackoff ==
    \A a, b \in 1..Len(waits) :
        /\ waits[a].ms > 0
        /\ waits[a].ms * waits[b].attempt = waits[b].ms * waits[a].attempt

----------------------------------------------------------------------------
(* C11: the fallback batch after three failed attempts *)

PlaceholderDomains ==
    { "example.com", "example.org", "example.net", "wikipedia.org/wiki/example" }

\* performSearch has resolved with the fallback batch after every attempt failed
ExhaustedFallback ==
    /\ spc = "resolved"
    /\ usedFallback
    /\ fetches = MAX_ATTEMPTS

\* five results, positions 1 to 5, pairwise distinct placeholder links
FallbackBatchShape ==
    /\ Len(searchReturn) = 5
    /\ \A k \in 1..Len(searchReturn) : searchReturn[k].position = k
    /\ \A k, m \in 1..Len(searchReturn) :
           k # m => searchReturn[k].link # searchReturn[m].link
    /\ \A k \in 1..Len(searchReturn) :
           \E d \in PlaceholderDomains : Includes(searchReturn[k].link, <<d>>)

\* C11 as stated: after three failed attempts performSearch returns exactly
\* five results with positions 1 to 5 and pairwise distinct placeholder
\* links, and every title contains the query text as it was given to
\* performSearch.
C11_Original ==
    ExhaustedFallback =>
        /\ FallbackBatchShape
        /\ \A k \in 1..Len(searchReturn) : Includes(searchReturn[k].title, sQuery)

\* C11 amended: after three failed attempts performSearch returns exactly
\* five results with positions 1 to 5 and pairwise distinct placeholder
\* links, and every title contains the query text with its wrapping quotes
\* removed, which is the given text when the query is not wrapped in quotes.
C11_TitlesCarryCleanedQuery ==
    ExhaustedFallback =>
        /\ FallbackBatchShape
        /\ \A k \in 1..Len(searchReturn) :
               Includes(searchReturn[k].title, StripQuotes(sQuery))

\* three failed attempts on a query that came wrapped in quotes
C11_Witness ==
    /\ ExhaustedFallback
    /\ Len(sQuery) > 2
    /\ sQuery[1] \in QuoteChars
    /\ StripQuotes(sQuery) # sQuery

----------------------------------------------------------------------------
(* C12: wrapping quotes are stripped before dispatch and before recording *)

Wrapped(s) == Len(s) >= 2 /\ s[1] \in QuoteChars /\ s[Len(s)] \in QuoteChars

Inner(s) == SubSeq(s, 2, Len(s) - 1)

\* the text the provider is asked for is the argument without its wrapping
\* quotes
C12_ProviderGetsStripped ==
    (spc = "fetch" /\ Wrapped(sQuery)) => cleanedQuery = Inner(sQuery)

\* the fallback paths work on the stripped text as well
C12_FallbackUsesStripped ==
    (spc = "resolved" /\ usedFallback /\ Wrapped(sQuery)) =>
        searchReturn = generateMockResults(Inner(sQuery))

\* the text recorded in the search step is the text the provider is asked for
C12_TraceTextIsProviderText ==
    (pc = "await_search" /\ spc = "fetch") =>
        traceSteps[searchStep].action =
            <<"Searching for: ", "\"">> \o cleanedQuery \o <<"\"">>

\* C12: a query wrapped in quotes is stripped of them before it is sent to
\* the provider and before it is recorded in the search trace step, on every
\* path through performSearch including the fallback paths, and the text
\* recorded in the trace step is the text the provider is asked for.
C12_QuotesStripped ==
    /\ C12_ProviderGetsStripped
    /\ C12_FallbackUsesStripped
    /\ C12_TraceTextIsProviderText

----------------------------------------------------------------------------
(* C13: the steps given to the synthesis prompt *)

SynthesisIssued == calls # <<>> /\ calls[Len(calls)] = "synthesis"

\* the analysis steps of the trace that carry a reflection, in trace order
ReflectedAnalysisSteps ==
    SelectSeq(traceSteps, LAMBDA step : IsAnalysisStep(step) /\ HasReflection(step))

\* the positions of s are taken from the trace in the order of the trace
InTraceOrder(s) ==
    \E f \in [1..Len(s) -> 1..Len(traceSteps)] :
        /\ \A k \in 1..Len(s) : traceSteps[f[k]] = s[k]
        /\ \A k \in 1..(Len(s) - 1) : f[k] <= f[k + 1]

\* C13: the synthesis prompt holds at most 3 trace steps, namely the planning
\* step and the (at most 2) most recent analysis steps with a non-empty
\* reflection, in trace order, and never a search step.
C13_PromptSteps ==
    SynthesisIssued =>
        /\ Len(essentialSteps) <= 3
        /\ essentialSteps[1] = traceSteps[1]
        /\ IsPlanningStep(essentialSteps[1])
        /\ Range(essentialSteps) =
               {traceSteps[1]} \cup Range(SliceLast(ReflectedAnalysisSteps, 2))
        /\ InTraceOrder(essentialSteps)
        /\ \A k \in 1..Len(essentialSteps) : ~IsSearchStep(essentialSteps[k])

\* two full rounds: five trace steps, two of them search steps, three in the prompt
C13_Witness ==
    /\ SynthesisIssued
    /\ Len(traceSteps) = 5
    /\ Cardinality(SearchStepIxs) = 2
    /\ Len(essentialSteps) = 3
    /\ essentialSteps = <<traceSteps[1], traceSteps[3], traceSteps[5]>>

----------------------------------------------------------------------------
(* C14: the missing language-model credential *)

ConfigError == <<"OPENAI_API_KEY is not defined in environment variables">>

\* generateResearchResponse has been entered
Entered == pc \notin {"start", "await_initial_search"}

\* C14: without the language-model credential generateResearchResponse
\* raises the configuration error at its start: it issues no model call and
\* no search call, and no trace step is ever created.
C14_ConfigErrorFirst ==
    ~OPENAI_API_KEY =>
        /\ calls = <<>>
        /\ outstanding = {}
        /\ traceSteps = <<>>
        /\ Entered => (pc = "done" /\ outcome = "thrown" /\ error = ConfigError)
        /\ (Entered /\ SERPER_API_KEY) => (spc = "idle" /\ fetches = 0)

\* the invocation was entered without the credential and has thrown
C14_Witness ==
    /\ ~OPENAI_API_KEY
    /\ Entered
    /\ outcome = "thrown"
    /\ error = ConfigError

----------------------------------------------------------------------------
(* C16: the trace is append-only *)

\* step k is rewritten in its observation only
ObservationRewritten(k) ==
    /\ traceSteps'[k] # traceSteps[k]
    /\ traceSteps'[k] =
           [traceSteps[k] EXCEPT !.observation = traceSteps'[k].observation]

\* C16: within an invocation the trace only grows at its end; a step already
\* in it is never removed, moved or replaced; the only field ever changed is
\* the observation of a search step, and only while that step is the last
\* element of the trace.
C16_AppendOnly ==
    [][ /\ Len(traceSteps') >= Len(traceSteps)
        /\ \A k \in 1..Len(traceSteps) :
               \/ traceSteps'[k] = traceSteps[k]
               \/ /\ ObservationRewritten(k)
                  /\ IsSearchStep(traceSteps[k])
                  /\ k = Len(traceSteps)
                  /\ Len(traceSteps') = Len(traceSteps) ]_vars

\* a search step whose observation was rewritten twice (results, then the
\* failed analysis) and a trace that grew after an earlier rewrite
C16_Witness ==
    /\ Len(traceSteps) >= 4
    /\ \E k \in SearchStepIxs :
           k < Len(traceSteps) /\ traceSteps[k].observation # WaitingObservation
    /\ \E k \in SearchStepIxs : Includes(traceSteps[k].observation, ErrorObservation)

----------------------------------------------------------------------------
(* C17: the calls of one invocation are strictly sequential *)

\* the call kinds that may directly precede a call of the given kind
MayPrecede(kind) ==
    CASE kind = "refine"    -> {"planning", "analysis"}
      [] kind = "search"    -> {"refine"}
      [] kind = "analysis"  -> {"search"}
      [] kind = "synthesis" -> {"planning", "search", "analysis"}
      [] OTHER              -> {}

\* C17: at any time at most one model or search call of the invocation is
\* outstanding, and it is the one issued last; the calls follow each other as
\* planning, then per round refine, search, analysis, then synthesis, a round
\* starting only after the previous round's calls have settled and the
\* synthesis call coming last, with no search in progress.
C17_Sequential ==
    /\ Cardinality(outstanding) <= 1
    /\ outstanding \subseteq {Len(calls)}
    /\ calls # <<>> => calls[1] = "planning"
    /\ \A k \in 2..Len(calls) : calls[k - 1] \in MayPrecede(calls[k])
    /\ \A k \in 1..Len(calls) : calls[k] = "synthesis" => k = Len(calls)
    /\ (spc # "idle" /\ pc # "await_initial_search") =>
           /\ pc = "await_search"
           /\ outstanding = {Len(calls)}
           /\ calls[Len(calls)] = "search"

\* the synthesis call is the only outstanding call after two complete rounds
C17_Witness ==
    /\ calls = <<"planning", "refine", "search", "analysis",
                 "refine", "search", "analysis", "synthesis">>
    /\ outstanding = {Len(calls)}
    /\ pc = "await_synthesis"

----------------------------------------------------------------------------
(* C20: when a round issues its analysis call *)

IsFoundObservation(obs) == \E n \in 1..MaxOrganic : obs = FoundObservation(n)

\* the analysis call is pending on step k, or its step follows step k
AnalysisFollows(k) ==
    \/ k = Len(traceSteps) /\ pc = "await_analysis"
    \/ k < Len(traceSteps) /\ IsAnalysisStep(traceSteps[k + 1])

\* C20 as stated: the analysis call is issued and the analysis step appended
\* exactly when the round's search returned non-synthetic results; a round
\* with synthetic fallback results issues no analysis call and appends no
\* analysis step.
C20_Original ==
    /\ pc = "await_analysis" => ~hasMockResults(searchResults)
    /\ \A k \in AnalysisStepIxs : IsFoundObservation(traceSteps[k - 1].observation)
    /\ \A k \in SearchStepIxs :
           IsFoundObservation(traceSteps[k].observation) => AnalysisFollows(k)

\* C20 amended: a round issues its analysis call after non-synthetic results
\* and also after synthetic results that are the first failure in a row; only
\* a round whose synthetic results bring the failure count to 2 issues none,
\* and that is never the first round.  An analysis step is appended exactly
\* after a search step whose round issued the call and the call succeeded.
C20_AnalysisUnlessCapExit ==
    /\ pc = "await_analysis" =>
           (hasMockResults(searchResults) => consecutiveFailures = 1)
    /\ Count(calls, "analysis") =
           Cardinality({ k \in SearchStepIxs :
               /\ traceSteps[k].observation # WaitingObservation
               /\ traceSteps[k].observation # MockObservation \o ProceedNote })
    /\ \A k \in SearchStepIxs :
           traceSteps[k].observation = MockObservation \o ProceedNote =>
               /\ Cardinality({ m \in SearchStepIxs : m <= k }) = 2
               /\ k = Len(traceSteps)
    /\ \A k \in SearchStepIxs :
           (\/ traceSteps[k].observation = MockObservation
            \/ IsFoundObservation(traceSteps[k].observation)) <=> AnalysisFollows(k)
    /\ \A k \in AnalysisStepIxs : IsSearchStep(traceSteps[k - 1])

\* a round with synthetic results whose analysis step was appended
C20_Witness ==
    \E k \in SearchStepIxs :
        /\ traceSteps[k].observation = MockObservation
        /\ k < Len(traceSteps)
        /\ IsAnalysisStep(traceSteps[k + 1])
        /\ Count(calls, "analysis") >= 1

----------------------------------------------------------------------------
(* C19: the response survives serialization *)

\* C19: parsing the JSON text the handler responds with gives back the chat
\* id and a response with the same trace steps in the same order, each with
\* the same thought, action, observation and reflection (or none), and the
\* same finalOutput.
C19_RoundTrip ==
    outcome = "returned" =>
        /\ JsonParse(responseBody).ok
        /\ JsonParse(responseBody).val.chatId = RequestChatId
        /\ JsonParse(responseBody).val.response.traceSteps = traceSteps
        /\ JsonParse(responseBody).val.response.finalOutput = finalOutput
        /\ DOMAIN JsonParse(responseBody).val.response = {"traceSteps", "finalOutput"}

\* a returned response of five steps: search steps without a reflection,
\* actions that contain quote characters
C19_Witness ==
    /\ outcome = "returned"
    /\ Len(traceSteps) = 5
    /\ \E k \in 1..Len(traceSteps) : "reflection" \notin DOMAIN traceSteps[k]
    /\ \A k \in 1..Len(traceSteps) : DQ \in Range(traceSteps[k].action)
    /\ JsonParse(responseBody).ok

----------------------------------------------------------------------------
(* C15: a failed generateResearchResponse still yields a chat turn *)

\* the agent messages request r has in the chat it names
AgentMessagesOf(r) ==
    IF requests[r].currentChatId \in DOMAIN chatStore
    THEN LET messages == chatStore[requests[r].currentChatId].messages IN
         { k \in 1..Len(messages) : ~messages[k].isUser /\ messages[k].id[1] = r }
    ELSE {}

\* the handler answered request r from its catch of generateResearchResponse's error
AnsweredFailure(r) == requests[r].answeredBy = "failure"

\* the answer is the one-step error response with the apology, status 200
C15_ErrorAnswerShape ==
    \A r \in Requests : AnsweredFailure(r) =>
        /\ requests[r].status = 200
        /\ requests[r].body.chatId = requests[r].currentChatId
        /\ Len(requests[r].body.response.traceSteps) = 1
        /\ requests[r].body.response.traceSteps[1].reflection = requests[r].failure
        /\ requests[r].failure \in GenerateErrors
        /\ requests[r].body.response.finalOutput # <<>>
        /\ Includes(requests[r].body.response.finalOutput,
                    ErrorResponse(<<>>).finalOutput)
        /\ \A k \in AgentMessagesOf(r) :
               chatStore[requests[r].currentChatId].messages[k].response
                   = requests[r].body.response

\* C15: when generateResearchResponse fails during a POST request, the
\* handler catches the failure, appends exactly one agent message with the
\* one-step error response and the apology to the request's chat, and
\* returns that same response with the chat id and no error status.
C15_ErrorTurnRecorded ==
    /\ C15_ErrorAnswerShape
    /\ \A r \in Requests : AnsweredFailure(r) => requests[r].agentAppends = 1

\* the same for requests whose chat is in the store when the handler appends
C15_RecordedInKnownChat ==
    \A r \in Requests :
        (AnsweredFailure(r) /\ requests[r].agentAppends = 0) =>
            requests[r].currentChatId \notin DOMAIN chatStore

----------------------------------------------------------------------------
(* C18: concurrent invocations do not share their trace or their counter *)

\* every step of the trace was produced for the query q
OwnedBy(trace, q) == \A k \in 1..Len(trace) : Includes(trace[k].action, q)

FailedSearchSteps(trace) ==
    { k \in 1..Len(trace) :
        /\ IsSearchStep(trace[k])
        /\ \/ Includes(trace[k].observation, MockObservation)
           \/ Includes(trace[k].observation, ErrorObservation) }

\* the trace and the counter of the invocation with locals inv are its own
Isolated(inv) ==
    /\ OwnedBy(inv.traceSteps, inv.query)
    /\ inv.traceSteps # <<>> => IsPlanningStep(inv.traceSteps[1])
    /\ Cardinality({ k \in 1..Len(inv.traceSteps) : IsPlanningStep(inv.traceSteps[k]) })
           = Count(inv.calls, "planning") - (IF inv.pc = "await_planning" THEN 1 ELSE 0)
    /\ Cardinality({ k \in 1..Len(inv.traceSteps) : IsSearchStep(inv.traceSteps[k]) })
           = Count(inv.calls, "search")
    \* a round of its own adds at most 2: its search and its analysis call
    /\ inv.consecutiveFailures <= 2 * Cardinality(FailedSearchSteps(inv.traceSteps))
    /\ inv.outcome = "returned" =>
           /\ JsonParse(inv.responseBody).val.response.traceSteps = inv.traceSteps
           /\ OwnedBy(JsonParse(inv.responseBody).val.response.traceSteps, inv.query)

\* C18: for any interleaving of two concurrent invocations, each
\* invocation's trace and consecutive-failure counter start fresh and are
\* read and written by that invocation only: the trace holds exactly the
\* steps the invocation produced, the counter counts only its own failed
\* rounds, and the response it returns contains only its own steps.
C18_Isolation ==
    /\ running \in {1, 2}
    /\ Locals.query # parked.query
    /\ Isolated(Locals)
    /\ Isolated(parked)

\* both invocations are past a failed round of their own and one has returned
C18_Witness ==
    /\ parked # NoInvocation
    /\ Len(traceSteps) >= 3
    /\ Len(parked.traceSteps) >= 3
    /\ consecutiveFailures = 1
    /\ parked.consecutiveFailures = 2
    /\ parked.outcome = "returned"
    /\ pc = "await_refine"

----------------------------------------------------------------------------
(* C21: the consecutive-failure counter counts rounds *)

\* the search step of the given round (1 or 2), if the round has started
SearchStepOfRound(n) ==
    { k \in SearchStepIxs : Cardinality({ m \in SearchStepIxs : m <= k }) = n }

IsFailureObservation(obs) ==
    Includes(obs, MockObservation) \/ Includes(obs, ErrorObservation)

\* C21: one round raises the consecutive-failure counter by at most 1, so
\* the counter never exceeds the number of rounds started, and the loop is
\* ended by the cap (with the note) only in the second of two failed rounds,
\* never in the first round of an invocation.
C21_CounterCountsRounds ==
    /\ consecutiveFailures <= Cardinality(SearchStepIxs)
    /\ \A k \in SearchStepIxs :
           Includes(traceSteps[k].observation, ProceedNote) =>
               /\ k \in SearchStepOfRound(2)
               /\ \A j \in SearchStepOfRound(1) :
                      IsFailureObservation(traceSteps[j].observation)

----------------------------------------------------------------------------
(* C22: what the error observation of a search step records *)

ErrorSteps ==
    { k \in SearchStepIxs : Includes(traceSteps[k].observation, ErrorObservation) }

\* C22: a failure of the round's search call is caught in the round and
\* never aborts the invocation, and a search step carries the error text only
\* when the search call itself failed: a round whose search call returned,
\* so that its analysis call was issued, never carries it.
C22_ErrorMeansSearchFailed ==
    /\ outcome = "thrown" => "search" \notin failedCalls
    /\ spc # "rejected"
    /\ "analysis" \in failedCalls => ErrorSteps = {}
    /\ Count(calls, "analysis") + Cardinality(ErrorSteps) <= Cardinality(SearchStepIxs)

\* the part that holds: nothing the gateway does aborts the invocation, and
\* the error text is only ever written after a failed call of the round
C22_SearchNeverAborts ==
    /\ "search" \notin failedCalls
    /\ spc # "rejected"
    /\ ErrorSteps # {} => "analysis" \in failedCalls

----------------------------------------------------------------------------
(* C23: the failure counter and mixed rounds *)

\* the rounds of the trace that are known to have searched real results: a
\* round that has a successor and whose search step does not carry the
\* synthetic-results text (a synthetic round followed by another round got
\* its analysis, which leaves that text in place)
RealRoundBefore(k) ==
    { j \in SearchStepIxs :
          j < k /\ ~Includes(traceSteps[j].observation, MockObservation) }

\* C23: a real round followed by a synthetic one, or a synthetic round
\* followed by a real one, never ends the loop with the consecutive-failure
\* note: a second round that carries the note follows a synthetic round.
C23_MixedRoundsNeverTerminate ==
    \A k \in SearchStepOfRound(2) :
        Includes(traceSteps[k].observation, ProceedNote) =>
            RealRoundBefore(k) = {}

\* the part that holds: the counter is 0 when the loop starts, a step lowers
\* it only to 0 and only when a round's search returned results that are not
\* classified synthetic, and every such return leaves it at 0
C23_CounterResets ==
    [][ /\ (pc = "await_planning" /\ pc' = "await_refine") => consecutiveFailures' = 0
        /\ consecutiveFailures' < consecutiveFailures =>
               /\ pc = "await_search"
               /\ ~hasMockResults(searchReturn)
               /\ consecutiveFailures' = 0
        /\ (pc = "await_search" /\ pc' # pc /\ ~hasMockResults(searchReturn)) =>
               consecutiveFailures' = 0 ]_vars

----------------------------------------------------------------------------
(* C24: leaving the loop early *)

\* the loop was left by the consecutive-failure cap or by the sufficiency
\* marker of an analysis
EarlyExit ==
    /\ traceSteps # <<>>
    /\ \/ LastStepHasNote
       \/ /\ IsAnalysisStep(traceSteps[Len(traceSteps)])
          /\ IndicatesEnough(traceSteps[Len(traceSteps)])

\* C24: after the loop ends early, by the cap or by the sufficiency marker,
\* the synthesis call is issued exactly once, nothing is thrown for the early
\* exit, and when the synthesis call succeeds the invocation returns a
\* response with the steps recorded so far and a final output.
C24_EarlyExitStillSynthesises ==
    EarlyExit =>
        /\ LoopLeft
        /\ Count(calls, "synthesis") = 1
        /\ outcome = "thrown" => "synthesis" \in failedCalls
        /\ pc = "done" =>
               IF "synthesis" \in failedCalls
               THEN outcome = "thrown"
               ELSE /\ outcome = "returned"
                    /\ finalOutput # <<>>

C24_Witness ==
    /\ EarlyExit
    /\ LastStepHasNote
    /\ outcome = "returned"
    /\ Cardinality(SearchStepIxs) = 2

C24_WitnessMarker ==
    /\ EarlyExit
    /\ ~LastStepHasNote
    /\ outcome = "returned"
    /\ Cardinality(SearchStepIxs) = 1

----------------------------------------------------------------------------
(* C25: the two classifications of a batch *)

InPlaceholderDomain(link) == \E d \in PlaceholderDomains : Includes(link, <<d>>)

AllPlaceholder(results) ==
    \A k \in 1..Len(results) : InPlaceholderDomain(results[k].link)

SaysPlaceholder(step) == Includes(step.observation, <<" placeholder results (no actual search results were found).">>)

\* C25: the loop classifies a batch as synthetic exactly when every link of
\* it lies in the placeholder domain set; every batch generateMockResults
\* builds is classified synthetic by the loop and by analyzeSearchResults;
\* and the two classify every batch alike: the batch the analysis is given,
\* and in the trace every analysis step against the search step of its round.
C25_ClassificationsAgree ==
    /\ spc = "resolved" =>
           /\ hasMockResults(searchReturn) = AllPlaceholder(searchReturn)
           /\ analysisHasMockResults(searchReturn) = hasMockResults(searchReturn)
           /\ usedFallback =>
                  /\ searchReturn = generateMockResults(cleanedQuery)
                       \/ searchReturn = generateMockResults(sQuery)
                  /\ hasMockResults(searchReturn)
                  /\ analysisHasMockResults(searchReturn)
    /\ pc = "await_analysis" =>
           /\ analysisHasMockResults(searchResults) = hasMockResults(searchResults)
           /\ hasMockResults(searchResults)
                  = Includes(traceSteps[Len(traceSteps)].observation, MockObservation)
    /\ \A k \in AnalysisStepIxs :
           /\ k - 1 \in SearchStepIxs
           /\ SaysPlaceholder(traceSteps[k])
                  = Includes(traceSteps[k - 1].observation, MockObservation)

\* the analysis of a generated batch is pending, and the trace already holds
\* an analysis of a real batch
C25_Witness ==
    /\ pc = "await_analysis"
    /\ searchResults = generateMockResults(refinedQuery)
    /\ hasMockResults(searchResults)
    /\ \E k \in AnalysisStepIxs : ~SaysPlaceholder(traceSteps[k])

----------------------------------------------------------------------------
(* C26: a successful provider attempt *)

\* performSearch has returned from an attempt whose response carried a
\* non-empty organic array
ProviderSucceeded == spc = "resolved" /\ ~usedFallback

\* C26: when an attempt gets a parseable response with a non-empty organic
\* array, performSearch resolves with exactly that array: the same results
\* in the same order, nothing added, removed, de-duplicated or re-ranked;
\* and the attempt that succeeded is the last provider call of the call.
C26_ProviderResultsVerbatim ==
    ProviderSucceeded =>
        /\ delivered \in ProviderBatches
        /\ Len(searchReturn) = Len(delivered)
        /\ \A k \in 1..Len(delivered) : searchReturn[k] = delivered[k]
        /\ fetches = attempt
        /\ attempt \in 1..MAX_ATTEMPTS
        /\ ~timerArmed

\* no provider call is started once performSearch has resolved
C26_NoFurtherAttempt ==
    [][ spc = "resolved" => (fetches' <= fetches /\ attempt' <= attempt) ]_vars

\* the second attempt returned two results with the same link
C26_Witness ==
    /\ ProviderSucceeded
    /\ attempt = 2
    /\ Len(delivered) = 2
    /\ delivered[1].link = delivered[2].link
    /\ searchReturn = delivered

----------------------------------------------------------------------------
(* C27: one agent message per request *)

\* request r was valid and all it started has finished: the handler has
\* answered, processQuery has settled and the timeout timer has fired
Finished(r) ==
    /\ requests[r].phase = "answered"
    /\ requests[r].answeredBy # "invalid"
    /\ requests[r].pq = "settled"
    /\ requests[r].timer = "fired"

\* the agent messages a chat holds for request r
AgentMessagesFor(r, id) ==
    { k \in 1..Len(chatStore[id].messages) :
          /\ ~chatStore[id].messages[k].isUser
          /\ chatStore[id].messages[k].id[1] = r }

\* C27: once everything a valid request started has finished, exactly one
\* agent message was appended for it, also when the timeout won the race;
\* and no chat ever holds two agent messages for the same request.
C27_ExactlyOneAgentMessage ==
    \A r \in Requests :
        /\ Finished(r) => requests[r].agentAppends = 1
        /\ \A id \in DOMAIN chatStore : Cardinality(AgentMessagesFor(r, id)) <= 1

\* the second half alone: a chat never holds two agent messages for one request
C27_NoSecondAnswer ==
    \A r \in Requests : \A id \in DOMAIN chatStore :
        Cardinality(AgentMessagesFor(r, id)) <= 1

\* what holds: a request is answered by at most two appends, and a second
\* one only when the timeout won the race
C27_SecondOnlyAfterTimeout ==
    \A r \in Requests :
        /\ requests[r].agentAppends <= 2
        /\ requests[r].agentAppends = 2 => requests[r].answeredBy = "timeout"

----------------------------------------------------------------------------
(* C28: the answer of POST and the stored chat *)

\* the handler returns its answer to request r in this step
Answers(r) == requests[r].phase = "racing" /\ requests'[r].phase = "answered"

\* after the step the store holds the chat the answer names, with the user
\* message of request r followed by an agent message carrying the response
\* of the answer
TurnStored(r) ==
    LET body == requests'[r].body IN
    /\ body.chatId \in DOMAIN chatStore'
    /\ LET messages == chatStore'[body.chatId].messages IN
       \E j, k \in 1..Len(messages) :
           /\ j < k
           /\ messages[j].isUser
           /\ messages[j].id[1] = r
           /\ messages[j].content = requests'[r].query.text
           /\ ~messages[k].isUser
           /\ messages[k].response = body.response

\* C28: whenever POST returns a body with chatId and response, the store
\* holds a chat under that chatId whose messages include the request's user
\* message followed by an agent message carrying that response; also for a
\* chatId the store does not know and with clearAllChats called in between.
C28_AnswerIsStored ==
    [][ \A r \in Requests : Answers(r) => TurnStored(r) ]_vars

\* what holds: the turn is stored whenever the chat is still in the store
\* when the handler answers
C28_StoredIfChatKept ==
    [][ \A r \in Requests :
            (Answers(r) /\ requests'[r].body.chatId \in DOMAIN chatStore')
                => TurnStored(r) ]_vars

----------------------------------------------------------------------------
(* C29: the shape of a returned trace *)

ModelCalls == { k \in 1..Len(calls) : calls[k] # "search" }

\* the text a step's action quotes: what follows the opening quote
QuotedBy(step) ==
    IF IsAnalysisStep(step) THEN Tail(Tail(Tail(step.action)))
    ELSE Tail(Tail(step.action))

\* C29: a returned trace is one planning step followed, round by round, by a
\* search step and optionally the analysis step of that round: it has 2 to 5
\* steps, only the first is a planning step, every analysis step comes right
\* after the search step of its round, one search step per round run; and an
\* invocation issues at most 6 model calls.
C29_TraceShape ==
    /\ Cardinality(ModelCalls) <= 6
    /\ outcome = "returned" =>
           /\ Len(traceSteps) \in 2..5
           /\ IsPlanningStep(traceSteps[1])
           /\ \A k \in 2..Len(traceSteps) :
                  /\ ~IsPlanningStep(traceSteps[k])
                  /\ IsSearchStep(traceSteps[k]) \/ IsAnalysisStep(traceSteps[k])
           /\ IsSearchStep(traceSteps[2])
           /\ \A k \in AnalysisStepIxs :
                  /\ k - 1 \in SearchStepIxs
                  /\ QuotedBy(traceSteps[k]) = QuotedBy(traceSteps[k - 1])
           /\ Cardinality(SearchStepIxs) = Count(calls, "search")
           /\ Cardinality(SearchStepIxs) \in 1..2
           /\ Cardinality(AnalysisStepIxs) <= Count(calls, "analysis")

\* two full rounds: five steps and six model calls
C29_Witness ==
    /\ outcome = "returned"
    /\ Len(traceSteps) = 5
    /\ Cardinality(ModelCalls) = 6

\* a returned trace whose first round has no analysis step
C29_WitnessNoAnalysis ==
    /\ outcome = "returned"
    /\ Len(traceSteps) = 4
    /\ IsSearchStep(traceSteps[2])
    /\ IsSearchStep(traceSteps[3])

----------------------------------------------------------------------------
(* C30: no pending observation survives *)

PendingSteps ==
    { k \in 1..Len(traceSteps) : traceSteps[k].observation = WaitingObservation }

\* the observation reports an outcome of the round's search
IsOutcomeObservation(obs) ==
    \/ IsFoundObservation(obs)
    \/ Includes(obs, MockObservation)
    \/ Includes(obs, ErrorObservation)

\* C30: a search step has the pending observation only while the search of
\* its round is awaited, when it is the last step of the trace; once the
\* round goes on or the loop is left its observation reports an outcome, so
\* no step of a returned response is still pending.
C30_NoPendingObservation ==
    /\ \A k \in PendingSteps :
           /\ k = Len(traceSteps)
           /\ IsSearchStep(traceSteps[k])
           /\ pc = "await_search"
    /\ \A k \in SearchStepIxs :
           k \notin PendingSteps => IsOutcomeObservation(traceSteps[k].observation)
    /\ pc = "await_search" => PendingSteps = {Len(traceSteps)}
    /\ outcome = "returned" => PendingSteps = {}

\* a returned trace with two search steps, one with results found and one
\* with the error observation
C30_Witness ==
    /\ outcome = "returned"
    /\ PendingSteps = {}
    /\ \E j, k \in SearchStepIxs :
           /\ IsFoundObservation(traceSteps[j].observation)
           /\ Includes(traceSteps[k].observation, ErrorObservation)

----------------------------------------------------------------------------
(* C31: the steps of the synthesis prompt are distinct trace steps *)

\* s lists pairwise distinct steps of the trace: its elements sit at strictly
\* increasing positions of the trace, the first at the planning step
DistinctTraceSteps(s) ==
    \E f \in [1..Len(s) -> 1..Len(traceSteps)] :
        /\ f[1] = 1
        /\ \A k \in 1..Len(s) : traceSteps[f[k]] = s[k]
        /\ \A k \in 1..(Len(s) - 1) : f[k] < f[k + 1]

PlanningStepsIn(s) == { k \in 1..Len(s) : IsPlanningStep(s[k]) }

\* C31: the steps generateFinalOutput gives to the synthesis prompt are
\* pairwise distinct trace steps: the planning step is there exactly once,
\* first, and every other step is an analysis step, whatever the query text.
C31_PromptStepsDistinct ==
    SynthesisIssued =>
        /\ DistinctTraceSteps(essentialSteps)
        /\ PlanningStepsIn(essentialSteps) = {1}
        /\ \A k \in 2..Len(essentialSteps) : IsAnalysisStep(essentialSteps[k])

\* what holds: the same for a query without the words of the filter
C31_DistinctForOtherQueries ==
    (SynthesisIssued /\ ~Includes(query, <<"Analyzing results">>)) =>
        /\ DistinctTraceSteps(essentialSteps)
        /\ PlanningStepsIn(essentialSteps) = {1}
        /\ \A k \in 2..Len(essentialSteps) : IsAnalysisStep(essentialSteps[k])

----------------------------------------------------------------------------
(* C32: a request without a usable query *)

\* the query of the body is missing, empty or not a string
Unusable(q) == q.type # "string" \/ q.text = <<>>

\* the handler takes up request r in this step
Received(r) == requests[r].phase = "unsent" /\ requests'[r].phase # "unsent"

\* nothing in the store was made for request r
NothingStoredFor(r) ==
    \A id \in DOMAIN chatStore :
        /\ id[1] # r
        /\ \A k \in 1..Len(chatStore[id].messages) : chatStore[id].messages[k].id[1] # r

\* C32: a POST whose query is missing, empty or not a string is answered
\* with status 400 and the error body in the step that receives it; that
\* step leaves the chat store as it was and starts neither processQuery,
\* with its search and model calls, nor the timeout; and nothing is ever
\* stored or started for the request afterwards.
C32_InvalidQueryRejected ==
    [][ \A r \in Requests :
            /\ (Received(r) /\ Unusable(requests'[r].query)) =>
                   /\ requests'[r].phase = "answered"
                   /\ requests'[r].status = 400
                   /\ requests'[r].body = [ error |-> <<"Valid query parameter is required">> ]
                   /\ chatStore' = chatStore
                   /\ uuidCount' = uuidCount
                   /\ requests'[r].pq = "none"
                   /\ requests'[r].timer = "unset"
            /\ (requests[r].phase # "unsent" /\ Unusable(requests[r].query)) =>
                   /\ requests'[r] = requests[r]
                   /\ requests[r].pq = "none"
                   /\ requests[r].agentAppends = 0
                   /\ NothingStoredFor(r) ]_vars

\* request 2 named a stored chat, carried an empty query and got 400, while
\* request 1 is still being processed
C32_Witness ==
    /\ requests[2].phase = "answered"
    /\ requests[2].status = 400
    /\ requests[2].query = StringQuery(<<>>)
    /\ requests[2].chatId \in DOMAIN chatStore
    /\ requests[1].pq = "await_generate"
    /\ Len(chatStore[requests[2].chatId].messages) = 1

----------------------------------------------------------------------------
(* C33: the previous-conversation context *)

\* processQuery of request r builds its context in this step
BuildsContext(r) ==
    requests[r].pq = "await_search" /\ requests'[r].pq = "await_generate"

\* the position of the user message of request r in the chat id
OwnMessage(r, id) ==
    { k \in 1..Len(chatStore[id].messages) :
          chatStore[id].messages[k].isUser /\ chatStore[id].messages[k].id[1] = r }

\* the messages of the chat that precede the user message of request r
Prior(r, id) ==
    LET messages == chatStore[id].messages IN
    IF OwnMessage(r, id) = {} THEN messages
    ELSE SubSeq(messages, 1, (CHOOSE k \in OwnMessage(r, id) : TRUE) - 1)

\* C33: the context processQuery builds is empty for the first request of a
\* new chat; for a follow-up it is the text of at most 6 consecutive
\* messages of the chat, in chat order, all of which precede the request's
\* own user message.
C33_ContextPrecedesQuery ==
    [][ \A r \in Requests : BuildsContext(r) =>
            LET id == requests[r].currentChatId IN
            /\ requests[r].chatId = NoChatId => requests'[r].context = <<>>
            /\ id \notin DOMAIN chatStore => requests'[r].context = <<>>
            /\ id \in DOMAIN chatStore =>
                   \E n \in 0..6 :
                       requests'[r].context = FormatContext(SliceLast(Prior(r, id), n)) ]_vars

\* what holds: the context is empty for a chat of one message or an unknown
\* chat, and otherwise the text of the chat's last messages, at most 6, the
\* request's own user message among them
C33_ContextOfLastMessages ==
    [][ \A r \in Requests : BuildsContext(r) =>
            LET id == requests[r].currentChatId IN
            IF id \in DOMAIN chatStore /\ Len(chatStore[id].messages) > 1
            THEN /\ requests'[r].context
                        = FormatContext(SliceLast(chatStore[id].messages, 6))
                 /\ Includes(requests'[r].context,
                             <<"User: ">> \o requests[r].query.text)
            ELSE requests'[r].context = <<>> ]_vars

----------------------------------------------------------------------------
(* C34: termination *)

\* the invocation has ended by returning a response or by propagating an error
Terminated ==
    /\ pc = "done"
    /\ outcome \in {"returned", "thrown"}
    /\ outstanding = {}

\* C34: when every model call and every search-gateway call that is issued
\* completes or fails, the invocation ends by returning a response or by
\* propagating an error, whatever the model replies and the searches return.
C34_Terminates == <>Terminated

\* no call is issued without end: the calls of an invocation are bounded
C34_BoundedWork ==
    /\ Len(calls) <= 8
    /\ fetches <= MAX_ATTEMPTS
    /\ Len(waits) <= MAX_ATTEMPTS
    /\ i <= maxIterations

\* an invocation that ended by propagating the error of its synthesis call
\* after two rounds, the first with a failed analysis call
C34_Witness ==
    /\ Terminated
    /\ outcome = "thrown"
    /\ failedCalls = {"analysis", "synthesis"}
    /\ Cardinality(SearchStepIxs) = 2

====
